---- MODULE Spec2Model ----
(***************************************************************************)
(* Maze generator (Wilson's algorithm) and solver (Tremaux's algorithm).   *)
(* State machine of main(): Maze construction, runWilson, runTremaux.      *)
(***************************************************************************)
EXTENDS Integers, Sequences, FiniteSets, TLC

(***************************************************************************)
(* Bounds of the model                                                     *)
(***************************************************************************)
MaxCells == 9
MaxIndeterminateReads == 1
MaxStepsAfterRead == 6
MaxMarks == 3
MaxArgLen == 2
MaxFairCells == 6

(***************************************************************************)
(* Program constants (maze.h, cell.h)                                      *)
(***************************************************************************)
NORTH_DIRECTION == 0
SOUTH_DIRECTION == 1
EAST_DIRECTION == 2
WEST_DIRECTION == 3
INVALID_CARDINAL_DIRECTION == -1
INVALID_ROW_COL == -1
NUM_CARDINAL_DIRECTIONS == 4
INVALID_EXIT == -1
VALID_EXIT_NO_MARKS == 0
VALID_EXIT_ONE_MARK == 1
VALID_EXIT_TWO_MARKS == 2

Dirs == 0 .. (NUM_CARDINAL_DIRECTIONS - 1)

VARIABLES
    pc,                 \* position of main() / runWilson / runTremaux
    ROWCELLS, COLCELLS, \* Maze dimensions (const members)
    m_cellsGrid,        \* [<<row, col>> -> Cell]
    m_neighborsToWallMap, \* [<<aR, aC, bR, bC>> -> Wall (its open flag)]
    m_entranceCoords, m_exitCoords,
    inMaze, notInMaze, unvisitedCells,  \* runWilson locals
    walkPath,           \* runWilson: map cell -> last direction of exit
    curRow, curCol,     \* current cell of runWilson's replay / of runTremaux
    rwRow, rwCol,       \* randomWalk's own curRow, curCol
    randDir,            \* randomWalk: the direction drawn last in the inner loop
    traversedPath,      \* runTremaux: stack of <<row, col, exitDir>>
    enteredCurThrough, exitedPrevThrough,
    curBacktrackCell,   \* backTrack: grid position the reference is bound to
    indeterminateReads, \* number of top() calls on an empty stack that returned
    stepsAfterRead,     \* main-loop iterations since the first of them
    argc, argv1,        \* main's arguments: their count, and argv[1] as characters
    outfile,            \* mazeData.csv: the sequence of strings written to it
    thisCell,           \* a Cell object on which a member function is called
    call                \* that call: member function, argument, Cell before, result

vars == <<pc, ROWCELLS, COLCELLS, m_cellsGrid, m_neighborsToWallMap,
          m_entranceCoords, m_exitCoords, inMaze, notInMaze, unvisitedCells,
          walkPath, curRow, curCol, rwRow, rwCol, randDir, traversedPath,
          enteredCurThrough, exitedPrevThrough, curBacktrackCell,
          indeterminateReads, stepsAfterRead, argc, argv1, outfile, thisCell, call>>

hostVars == <<argc, argv1, outfile>>
cellVars == <<thisCell, call>>
mazeVars == <<ROWCELLS, COLCELLS>>
readVars == <<indeterminateReads, stepsAfterRead>>
wilsonVars == <<inMaze, notInMaze, unvisitedCells, walkPath, rwRow, rwCol, randDir>>
tremauxVars == <<traversedPath, enteredCurThrough, exitedPrevThrough, curBacktrackCell>>

(***************************************************************************)
(* Grid helpers                                                            *)
(***************************************************************************)
GridCells(rows, cols) == (0 .. rows - 1) \X (0 .. cols - 1)

Cells == GridCells(ROWCELLS, COLCELLS)

InGrid(row, col) == ~(row < 0 \/ row >= ROWCELLS \/ col < 0 \/ col >= COLCELLS)

(***************************************************************************)
(* Cell class                                                              *)
(***************************************************************************)
\* Cell::Cell(r, c) with the default member initialisers
NewCell(r, c) ==
    [m_rowLoc |-> r, m_colLoc |-> c,
     m_amIOnPath |-> FALSE,
     m_exits |-> [d \in Dirs |-> INVALID_EXIT],
     m_numExits |-> 0]

\* faulty variant: the passage is recorded but m_numExits is left alone
updateMyExitNoCount(cell, dir) ==
    [cell EXCEPT !.m_exits[dir] = VALID_EXIT_NO_MARKS]

updateMyExit(cell, dir) ==
    [cell EXCEPT !.m_exits[dir] = VALID_EXIT_NO_MARKS,
                 !.m_numExits = @ + 1]

\* faulty variant: the slot is incremented without testing that the exit exists
markCellExitUnguarded(cell, dir) ==
    [cell EXCEPT !.m_exits[dir] = @ + 1]

markCellExit(cell, dir) ==
    IF dir \in Dirs /\ cell.m_exits[dir] > INVALID_EXIT
    THEN [cell EXCEPT !.m_exits[dir] = @ + 1]
    ELSE cell

\* markCellExit writes its "failed to mark exit" message to std::cerr
markCellExitError(cell, dir) == ~(cell.m_exits[dir] > INVALID_EXIT)

isItThisCell(cell, otherRow, otherCol) ==
    cell.m_rowLoc = otherRow /\ cell.m_colLoc = otherCol

isCellEntranceAndJunction(cell) == cell.m_numExits >= VALID_EXIT_TWO_MARKS

isCellJunction(cell) == cell.m_numExits > VALID_EXIT_TWO_MARKS

isCellDeadEnd(cell) == cell.m_numExits < VALID_EXIT_TWO_MARKS

isOnlyThisDirMarked(cell, dir) ==
    \A i \in Dirs : ~(cell.m_exits[i] > VALID_EXIT_NO_MARKS /\ i # dir)

isThisDirMarkedTwice(cell, dir) ==
    dir \in Dirs /\ cell.m_exits[dir] > VALID_EXIT_ONE_MARK

isCellJunctionAllDirFilled(cell) ==
    Cardinality({i \in Dirs : cell.m_exits[i] > VALID_EXIT_ONE_MARK}) = cell.m_numExits - 1

\* faulty variant: a slot with as few marks as the best so far replaces it
RECURSIVE FewestMarksScanLast(_, _)
FewestMarksScanLast(cell, i) ==
    IF i < 0 THEN <<100, 0>>
    ELSE LET prev == FewestMarksScanLast(cell, i - 1)
         IN IF cell.m_exits[i] > INVALID_EXIT /\ cell.m_exits[i] <= prev[1]
            THEN <<cell.m_exits[i], i>>
            ELSE prev

\* the loop of getDirFewestMarks: state <<numMarks, dir>> after slots 0 .. i
RECURSIVE FewestMarksScan(_, _)
FewestMarksScan(cell, i) ==
    IF i < 0 THEN <<100, 0>>
    ELSE LET prev == FewestMarksScan(cell, i - 1)
         IN IF cell.m_exits[i] > INVALID_EXIT /\ cell.m_exits[i] < prev[1]
            THEN <<cell.m_exits[i], i>>
            ELSE prev

getDirFewestMarks(cell) == FewestMarksScan(cell, NUM_CARDINAL_DIRECTIONS - 1)[2]

\* the loop of findDirOnlyOtherExit: otherDir after slots 0 .. i
RECURSIVE OtherExitScan(_, _, _)
OtherExitScan(cell, dir, i) ==
    IF i < 0 THEN INVALID_EXIT
    ELSE IF cell.m_exits[i] > INVALID_EXIT /\ i # dir
         THEN i
         ELSE OtherExitScan(cell, dir, i - 1)

findDirOnlyOtherExit(cell, dir) == OtherExitScan(cell, dir, NUM_CARDINAL_DIRECTIONS - 1)

\* findDirOnlyOtherExit writes its "number of exits other than the one given"
\* message to std::cerr (numOtherExits > 1)
findDirOnlyOtherExitError(cell, dir) ==
    Cardinality({i \in Dirs : cell.m_exits[i] > INVALID_EXIT /\ i # dir}) > 1

(***************************************************************************)
(* Maze class                                                              *)
(***************************************************************************)
\* keys created by the "vertical walls" loop of the constructor
VerticalWallKeys(rows, cols) ==
    {<<row, col, row, col + 1>> : row \in 0 .. rows - 1, col \in 0 .. cols - 2}

\* faulty variant: the "horizontal walls" loop also runs for the last row
HorizontalWallKeysLastRow(rows, cols) ==
    {<<row, col, row + 1, col>> : row \in 0 .. rows - 1, col \in 0 .. cols - 1}

\* keys created by the "horizontal walls" loop of the constructor
HorizontalWallKeys(rows, cols) ==
    {<<row, col, row + 1, col>> : row \in 0 .. rows - 2, col \in 0 .. cols - 1}

\* a Wall starts closed
NewWall == FALSE

openWall(wall) == TRUE

checkIsOpen(wall) == wall

\* Maze::Maze(uRows, uCols): the cell grid and the wall map
NewCellsGrid(rows, cols) == [p \in GridCells(rows, cols) |-> NewCell(p[1], p[2])]

NewWallMap(rows, cols) ==
    [k \in VerticalWallKeys(rows, cols) \cup HorizontalWallKeys(rows, cols) |-> NewWall]

\* Maze::updateCellExits on the grid
updateCellExits(grid, row, col, dir) ==
    [grid EXCEPT ![<<row, col>>] = updateMyExit(@, dir)]

\* Maze::connectNeighbors on the wall map
connectNeighbors(walls, neighborCells) ==
    IF neighborCells \in DOMAIN walls
    THEN [walls EXCEPT ![neighborCells] = openWall(@)]
    ELSE walls

(***************************************************************************)
(* tremaux.cpp helpers                                                     *)
(***************************************************************************)
\* takeStep: the new <<row, col>>
takeStep(row, col, dir) ==
    CASE dir = NORTH_DIRECTION -> <<row - 1, col>>
      [] dir = SOUTH_DIRECTION -> <<row + 1, col>>
      [] dir = EAST_DIRECTION -> <<row, col + 1>>
      [] dir = WEST_DIRECTION -> <<row, col - 1>>
      [] OTHER -> <<row, col>>

oppositeDirection(dir) ==
    CASE dir = NORTH_DIRECTION -> SOUTH_DIRECTION
      [] dir = SOUTH_DIRECTION -> NORTH_DIRECTION
      [] dir = EAST_DIRECTION -> WEST_DIRECTION
      [] dir = WEST_DIRECTION -> EAST_DIRECTION

(***************************************************************************)
(* Initial state: Maze(uRows, uCols) has been constructed                  *)
(***************************************************************************)
\* no command line has been read, nothing has been written
NoHost ==
    /\ argc = 0
    /\ argv1 = <<>>
    /\ outfile = <<>>

\* no member function of a single Cell is being exercised
NoCellCall ==
    /\ thisCell = NewCell(INVALID_ROW_COL, INVALID_ROW_COL)
    /\ call = [op |-> "none"]

Init ==
    /\ NoHost
    /\ NoCellCall
    /\ ROWCELLS \in 1 .. MaxCells
    /\ COLCELLS \in 1 .. MaxCells
    /\ ROWCELLS * COLCELLS <= MaxCells
    /\ pc = "constructed"
    /\ m_cellsGrid = NewCellsGrid(ROWCELLS, COLCELLS)
    /\ m_neighborsToWallMap = NewWallMap(ROWCELLS, COLCELLS)
    /\ m_entranceCoords = <<INVALID_ROW_COL, INVALID_ROW_COL>>
    /\ m_exitCoords = <<INVALID_ROW_COL, INVALID_ROW_COL>>
    /\ inMaze = <<>>
    /\ notInMaze = {}
    /\ unvisitedCells = 0
    /\ walkPath = <<>>
    /\ curRow = INVALID_ROW_COL
    /\ curCol = INVALID_ROW_COL
    /\ rwRow = INVALID_ROW_COL
    /\ rwCol = INVALID_ROW_COL
    /\ randDir = INVALID_CARDINAL_DIRECTION
    /\ traversedPath = <<>>
    /\ enteredCurThrough = INVALID_CARDINAL_DIRECTION
    /\ exitedPrevThrough = INVALID_CARDINAL_DIRECTION
    /\ curBacktrackCell = <<INVALID_ROW_COL, INVALID_ROW_COL>>
    /\ indeterminateReads = 0
    /\ stepsAfterRead = 0

(***************************************************************************)
(* wilson.cpp                                                              *)
(***************************************************************************)
\* std::map iterates its keys in lexicographic order: begin() is the least
MapBegin(S) ==
    CHOOSE p \in S : \A q \in S : p[1] < q[1] \/ (p[1] = q[1] /\ p[2] <= q[2])

\* faulty variant: every drawn direction is accepted
WalkDirValidAny(drawn, row, col) == drawn \in Dirs

\* the direction test of randomWalk's inner loop: is the drawn direction accepted here
WalkDirValid(drawn, row, col) ==
    \/ (NORTH_DIRECTION = drawn /\ row # 0)
    \/ (SOUTH_DIRECTION = drawn /\ row # ROWCELLS - 1)
    \/ (EAST_DIRECTION = drawn /\ col # COLCELLS - 1)
    \/ (WEST_DIRECTION = drawn /\ col # 0)

\* faulty variant: an exit direction already recorded for the cell is kept
RecordExitFirstWins(path, cell, drawn) ==
    [p \in DOMAIN path \cup {cell} |-> IF p \in DOMAIN path THEN path[p] ELSE drawn]

\* dirOfExit[cell] = randDir : inserts or overwrites
RecordExit(path, cell, drawn) ==
    [p \in DOMAIN path \cup {cell} |-> IF p = cell THEN drawn ELSE path[p]]

\* faulty variant: the cell stays in the record of cells outside the maze
EraseCellNothing(outOfMaze, cell) == outOfMaze

\* notInMaze.erase(cell)
EraseCell(outOfMaze, cell) == outOfMaze \ {cell}

\* faulty variant: the counter is lowered by two
CountDownTwice(n) == n - 2

\* unvisitedCells -= 1
CountDown(n) == n - 1

\* runWilson up to the main loop: clear both records, put one random cell in
WilsonInit ==
    /\ pc = "constructed"
    /\ \E randR \in 0 .. ROWCELLS - 1, randC \in 0 .. COLCELLS - 1 :
        /\ inMaze' = [p \in Cells |-> p = <<randR, randC>>]
        /\ notInMaze' = EraseCell(Cells, <<randR, randC>>)
        /\ unvisitedCells' = CountDown(ROWCELLS * COLCELLS)
    /\ pc' = "wilsonLoop"
    /\ UNCHANGED <<hostVars, cellVars, mazeVars, readVars, m_cellsGrid, m_neighborsToWallMap, m_entranceCoords,
                   m_exitCoords, walkPath, curRow, curCol, rwRow, rwCol, randDir,
                   tremauxVars>>

\* head of the main loop: pick the starting cell and call randomWalk.  From a
\* starting cell that is in the maze neither the walk's loop nor the replay loop
\* is entered, and the main loop comes back to its head
WilsonPickStart ==
    /\ pc = "wilsonLoop"
    /\ unvisitedCells > 0 /\ notInMaze # {}
    /\ LET startingCell == MapBegin(notInMaze)
       IN IF inMaze[startingCell] = TRUE
          THEN UNCHANGED <<curRow, curCol, rwRow, rwCol, pc>>
          ELSE /\ curRow' = startingCell[1]
               /\ curCol' = startingCell[2]
               /\ rwRow' = startingCell[1]
               /\ rwCol' = startingCell[2]
               /\ pc' = "randomWalk"
    /\ walkPath' = <<>>
    /\ randDir' = INVALID_CARDINAL_DIRECTION
    /\ UNCHANGED <<hostVars, cellVars, mazeVars, readVars, m_cellsGrid, m_neighborsToWallMap, m_entranceCoords,
                   m_exitCoords, inMaze, notInMaze, unvisitedCells, tremauxVars>>

\* one draw of randomWalk's inner loop.  A direction that fails the test is only
\* remembered in randDir and the inner loop draws again; an accepted direction
\* ends the inner loop: it is recorded, the step is taken, and the outer loop's
\* test follows (the next iteration starts with randDir invalid again).  A step
\* that leaves the grid takes the error branch and ends the walk: pc = "walkError"
RandomWalkStep ==
    /\ pc = "randomWalk"
    /\ inMaze[<<rwRow, rwCol>>] # TRUE
    /\ \E drawn \in Dirs :
        IF WalkDirValid(drawn, rwRow, rwCol)
        THEN /\ walkPath' = RecordExit(walkPath, <<rwRow, rwCol>>, drawn)
             /\ randDir' = INVALID_CARDINAL_DIRECTION
             /\ LET next == takeStep(rwRow, rwCol, drawn)
                IN IF ~InGrid(next[1], next[2])
                   THEN /\ rwRow' = next[1]
                        /\ rwCol' = next[2]
                        /\ pc' = "walkError"
                   ELSE IF inMaze[next] = TRUE
                   THEN /\ rwRow' = INVALID_ROW_COL
                        /\ rwCol' = INVALID_ROW_COL
                        /\ pc' = "replay"
                   ELSE /\ rwRow' = next[1]
                        /\ rwCol' = next[2]
                        /\ pc' = "randomWalk"
        ELSE /\ randDir' = drawn
             /\ UNCHANGED <<walkPath, rwRow, rwCol, pc>>
    /\ UNCHANGED <<hostVars, cellVars, mazeVars, readVars, m_cellsGrid, m_neighborsToWallMap, m_entranceCoords,
                   m_exitCoords, inMaze, notInMaze, unvisitedCells, curRow, curCol,
                   tremauxVars>>

\* faulty variant: the current cell always comes first in the key
NeighborsCurrentFirst(cR, cC, nR, nC) == <<cR, cC, nR, nC>>

\* the key of the wall between two neighbours, smaller cell first
NeighborsInOrder(cR, cC, nR, nC) ==
    IF cR < nR THEN <<cR, cC, nR, nC>>
    ELSE IF cR = nR
         THEN IF cC < nC THEN <<cR, cC, nR, nC>> ELSE <<nR, nC, cR, cC>>
         ELSE <<nR, nC, cR, cC>>

\* one iteration of the replay loop, with the loop test that follows
WilsonReplayStep ==
    /\ pc = "replay"
    /\ inMaze[<<curRow, curCol>>] # TRUE
    /\ <<curRow, curCol>> \in DOMAIN walkPath
    /\ LET curDir == walkPath[<<curRow, curCol>>]
           next == takeStep(curRow, curCol, curDir)
           oppositeDir == oppositeDirection(curDir)
       IN /\ inMaze' = [inMaze EXCEPT ![<<curRow, curCol>>] = TRUE]
          /\ notInMaze' = EraseCell(notInMaze, <<curRow, curCol>>)
          /\ m_cellsGrid' = updateCellExits(
                                updateCellExits(m_cellsGrid, curRow, curCol, curDir),
                                next[1], next[2], oppositeDir)
          /\ m_neighborsToWallMap' =
                connectNeighbors(m_neighborsToWallMap,
                                 NeighborsInOrder(curRow, curCol, next[1], next[2]))
          /\ unvisitedCells' = CountDown(unvisitedCells)
          /\ IF inMaze[next] = TRUE
             THEN /\ curRow' = INVALID_ROW_COL
                  /\ curCol' = INVALID_ROW_COL
                  /\ walkPath' = <<>>
                  /\ pc' = "wilsonLoop"
             ELSE /\ curRow' = next[1]
                  /\ curCol' = next[2]
                  /\ walkPath' = walkPath
                  /\ pc' = "replay"
    /\ UNCHANGED <<hostVars, cellVars, mazeVars, readVars, m_entranceCoords, m_exitCoords, rwRow, rwCol,
                   randDir, tremauxVars>>

\* Maze::labelMazeEntrance / labelMazeExit: the coordinates are stored whether or
\* not the bounds test printed an error
labelMazeEntrance(row, col) == <<row, col>>

labelMazeExit(row, col) == <<row, col>>

\* createEntranceAndExit, entrance: the <<entranceSide, entranceRow, entranceCol>>
\* the draws can produce
EntranceChoices ==
    {<<NORTH_DIRECTION, 0, c>> : c \in 0 .. COLCELLS - 1}
    \cup {<<SOUTH_DIRECTION, ROWCELLS - 1, c>> : c \in 0 .. COLCELLS - 1}
    \cup {<<EAST_DIRECTION, r, COLCELLS - 1>> : r \in 0 .. ROWCELLS - 1}
    \cup {<<WEST_DIRECTION, r, 0>> : r \in 0 .. ROWCELLS - 1}

\* faulty variant: the drawn coordinate is kept even if it equals the entrance's
ExitOnSideNoRedraw(exitSide, entranceRow, entranceCol) ==
    IF NORTH_DIRECTION = exitSide
    THEN {<<0, c>> : c \in 0 .. COLCELLS - 1}
    ELSE IF SOUTH_DIRECTION = exitSide
    THEN {<<ROWCELLS - 1, c>> : c \in 0 .. COLCELLS - 1}
    ELSE IF EAST_DIRECTION = exitSide
    THEN {<<r, COLCELLS - 1>> : r \in 0 .. ROWCELLS - 1}
    ELSE {<<r, 0>> : r \in 0 .. ROWCELLS - 1}

\* createEntranceAndExit, exit on the drawn side: the coordinate is redrawn while
\* it equals the entrance's
ExitOnSide(exitSide, entranceRow, entranceCol) ==
    IF NORTH_DIRECTION = exitSide
    THEN {<<0, c>> : c \in (0 .. COLCELLS - 1) \ {entranceCol}}
    ELSE IF SOUTH_DIRECTION = exitSide
    THEN {<<ROWCELLS - 1, c>> : c \in (0 .. COLCELLS - 1) \ {entranceCol}}
    ELSE IF EAST_DIRECTION = exitSide
    THEN {<<r, COLCELLS - 1>> : r \in (0 .. ROWCELLS - 1) \ {entranceRow}}
    ELSE {<<r, 0>> : r \in (0 .. ROWCELLS - 1) \ {entranceRow}}

\* faulty variant: a corner entrance gets the other corner of its own row
ExitChoicesSameRowCorner(entranceSide, entranceRow, entranceCol) ==
    IF (entranceRow = 0 \/ entranceRow = ROWCELLS - 1)
        /\ (entranceCol = 0 \/ entranceCol = COLCELLS - 1)
    THEN {<<entranceRow, COLCELLS - 1 - entranceCol>>}
    ELSE UNION {ExitOnSide(exitSide, entranceRow, entranceCol) :
                    exitSide \in Dirs \ {entranceSide}}

\* faulty variant: a corner entrance is not sent to the opposite corner
ExitChoicesNoCornerCase(entranceSide, entranceRow, entranceCol) ==
    UNION {{<<0, c>> : c \in 0 .. COLCELLS - 1}, {<<ROWCELLS - 1, c>> : c \in 0 .. COLCELLS - 1},
           {<<r, COLCELLS - 1>> : r \in 0 .. ROWCELLS - 1}, {<<r, 0>> : r \in 0 .. ROWCELLS - 1}}

\* createEntranceAndExit, exit: the <<exitRow, exitCol>> the draws can produce
ExitChoices(entranceSide, entranceRow, entranceCol) ==
    IF entranceRow = 0 /\ entranceCol = 0
    THEN {<<ROWCELLS - 1, COLCELLS - 1>>}
    ELSE IF entranceRow = 0 /\ entranceCol = COLCELLS - 1
    THEN {<<ROWCELLS - 1, 0>>}
    ELSE IF entranceRow = ROWCELLS - 1 /\ entranceCol = 0
    THEN {<<0, COLCELLS - 1>>}
    ELSE IF entranceRow = ROWCELLS - 1 /\ entranceCol = COLCELLS - 1
    THEN {<<0, 0>>}
    ELSE UNION {ExitOnSide(exitSide, entranceRow, entranceCol) :
                    exitSide \in Dirs \ {entranceSide}}

\* end of runWilson: the main loop has ended; createEntranceAndExit; return
CreateEntranceAndExit ==
    /\ pc = "wilsonLoop"
    /\ ~(unvisitedCells > 0 /\ notInMaze # {})
    /\ IF ROWCELLS >= 2 /\ COLCELLS >= 2
       THEN \E en \in EntranceChoices :
              \E ex \in ExitChoices(en[1], en[2], en[3]) :
                /\ m_entranceCoords' = labelMazeEntrance(en[2], en[3])
                /\ m_exitCoords' = labelMazeExit(ex[1], ex[2])
       ELSE \E en \in Cells, ex \in Cells :
                /\ m_entranceCoords' = labelMazeEntrance(en[1], en[2])
                /\ m_exitCoords' = labelMazeExit(ex[1], ex[2])
    /\ pc' = "generated"
    /\ UNCHANGED <<hostVars, cellVars, mazeVars, readVars, m_cellsGrid, m_neighborsToWallMap, wilsonVars,
                   curRow, curCol, tremauxVars>>

(***************************************************************************)
(* tremaux.cpp                                                             *)
(***************************************************************************)
NoCell == <<INVALID_ROW_COL, INVALID_ROW_COL>>

\* the junction test shared by runTremaux and backTrack
JunctionTest(cell, startRow, startCol) ==
    isCellJunction(cell)
        \/ (isItThisCell(cell, startRow, startCol) /\ isCellEntranceAndJunction(cell))

Top(stack) == stack[Len(stack)]

\* std::stack::pop; on an empty stack (undefined) the stack stays empty
Pop(stack) == IF stack = <<>> THEN <<>> ELSE SubSeq(stack, 1, Len(stack) - 1)

\* backTrack from the instruction instr on: the loop and the part after it.
\* The reference curBacktrackCell is bound to the cell of instr; assigning to it
\* copies the next instruction's Cell over that cell.
\* kind "top": top() was called on an empty stack, ref is the cell the
\* reference is bound to.
RECURSIVE BackTrackLoop(_, _, _, _, _)
BackTrackLoop(instr, stack, grid, startRow, startCol) ==
    LET here == <<instr[1], instr[2]>>
    IN IF JunctionTest(grid[here], startRow, startCol)
       THEN [kind |-> "junction",
             grid |-> [grid EXCEPT ![here] = markCellExit(@, instr[3])],
             stack |-> Pop(stack),
             curRow |-> instr[1], curCol |-> instr[2],
             enteredCurThrough |-> instr[3],
             exitedPrevThrough |-> oppositeDirection(instr[3]),
             ref |-> NoCell]
       ELSE LET popped == Pop(stack)
            IN IF popped = <<>>
               THEN [kind |-> "top", grid |-> grid, stack |-> popped,
                     curRow |-> INVALID_ROW_COL, curCol |-> INVALID_ROW_COL,
                     enteredCurThrough |-> INVALID_CARDINAL_DIRECTION,
                     exitedPrevThrough |-> INVALID_CARDINAL_DIRECTION,
                     ref |-> here]
               ELSE LET nextInstr == Top(popped)
                    IN BackTrackLoop(nextInstr, popped,
                                     [grid EXCEPT ![here] = grid[<<nextInstr[1], nextInstr[2]>>]],
                                     startRow, startCol)

backTrack(stack, grid, startRow, startCol) ==
    IF stack = <<>>
    THEN [kind |-> "top", grid |-> grid, stack |-> stack,
          curRow |-> INVALID_ROW_COL, curCol |-> INVALID_ROW_COL,
          enteredCurThrough |-> INVALID_CARDINAL_DIRECTION,
          exitedPrevThrough |-> INVALID_CARDINAL_DIRECTION,
          ref |-> NoCell]
    ELSE BackTrackLoop(Top(stack), stack, grid, startRow, startCol)

\* the state after a call of backTrack that produced bt; when top() was taken on
\* an empty stack the locals keep the values they had when backTrack was called
AfterBackTrack(bt, exitedBefore, enteredBefore) ==
    /\ m_cellsGrid' = bt.grid
    /\ traversedPath' = bt.stack
    /\ curBacktrackCell' = bt.ref
    /\ IF bt.kind = "junction"
       THEN /\ curRow' = bt.curRow
            /\ curCol' = bt.curCol
            /\ enteredCurThrough' = bt.enteredCurThrough
            /\ exitedPrevThrough' = bt.exitedPrevThrough
            /\ pc' = "tremaux"
       ELSE /\ UNCHANGED <<curRow, curCol>>
            /\ enteredCurThrough' = enteredBefore
            /\ exitedPrevThrough' = exitedBefore
            /\ pc' = "ub"

\* push the instruction <<curRow, curCol, dir>> and take the step
PushAndStep(dir) ==
    /\ traversedPath' = Append(traversedPath, <<curRow, curCol, dir>>)
    /\ exitedPrevThrough' = dir
    /\ enteredCurThrough' = oppositeDirection(dir)
    /\ curRow' = takeStep(curRow, curCol, dir)[1]
    /\ curCol' = takeStep(curRow, curCol, dir)[2]
    /\ curBacktrackCell' = NoCell
    /\ pc' = "tremaux"

curCell == m_cellsGrid[<<curRow, curCol>>]

\* faulty variant: the junction test comes before the exit test
AtExitUnlessJunction ==
    /\ curRow = m_exitCoords[1] /\ curCol = m_exitCoords[2]
    /\ ~JunctionTest(m_cellsGrid[<<curRow, curCol>>], m_entranceCoords[1], m_entranceCoords[2])

AtExit == curRow = m_exitCoords[1] /\ curCol = m_exitCoords[2]

AtJunction == JunctionTest(curCell, m_entranceCoords[1], m_entranceCoords[2])

\* an iteration of the main loop; after an indeterminate read the model follows
\* the run for MaxStepsAfterRead iterations
CountStep ==
    /\ indeterminateReads # 0 => stepsAfterRead < MaxStepsAfterRead
    /\ stepsAfterRead' = IF indeterminateReads = 0 THEN 0 ELSE stepsAfterRead + 1
    /\ UNCHANGED indeterminateReads

\* faulty variant: the solver takes the cell it leaves for the entrance
LayoutEntranceFollows ==
    /\ UNCHANGED <<m_neighborsToWallMap, m_exitCoords>>
    /\ m_entranceCoords' = IF pc = "tremaux" THEN <<curRow, curCol>> ELSE m_entranceCoords

\* runTremaux and backTrack call neither connectNeighbors nor labelMazeEntrance
\* nor labelMazeExit
LayoutKept == UNCHANGED <<m_neighborsToWallMap, m_entranceCoords, m_exitCoords>>

\* runTremaux up to the main loop
RunTremauxBegin ==
    /\ pc = "generated"
    /\ curRow' = m_entranceCoords[1]
    /\ curCol' = m_entranceCoords[2]
    /\ traversedPath' = <<>>
    /\ enteredCurThrough' = INVALID_CARDINAL_DIRECTION
    /\ exitedPrevThrough' = INVALID_CARDINAL_DIRECTION
    /\ curBacktrackCell' = NoCell
    /\ pc' = "tremaux"
    /\ LayoutKept
    /\ UNCHANGED <<hostVars, cellVars, mazeVars, readVars, m_cellsGrid, wilsonVars>>

\* main loop, current cell is the exit: push the terminal instruction, leave the loop
TremauxAtExit ==
    /\ pc = "tremaux"
    /\ CountStep
    /\ InGrid(curRow, curCol)
    /\ AtExit
    /\ traversedPath' = Append(traversedPath, <<curRow, curCol, 100>>)
    /\ pc' = "labelPath"
    /\ LayoutKept
    /\ UNCHANGED <<hostVars, cellVars, mazeVars, m_cellsGrid, wilsonVars, curRow, curCol,
                   enteredCurThrough, exitedPrevThrough, curBacktrackCell>>

\* main loop, current cell is a junction (or the entrance with >= 2 exits)
TremauxJunction ==
    /\ pc = "tremaux"
    /\ CountStep
    /\ InGrid(curRow, curCol)
    /\ ~AtExit
    /\ AtJunction
    /\ IF enteredCurThrough = INVALID_CARDINAL_DIRECTION
       THEN LET dir == getDirFewestMarks(curCell)
            IN /\ m_cellsGrid' = [m_cellsGrid EXCEPT ![<<curRow, curCol>>] = markCellExit(@, dir)]
               /\ PushAndStep(dir)
       ELSE IF isOnlyThisDirMarked(curCell, enteredCurThrough)
       THEN LET marked == markCellExit(curCell, enteredCurThrough)
                dir == getDirFewestMarks(marked)
            IN /\ m_cellsGrid' = [m_cellsGrid EXCEPT ![<<curRow, curCol>>] = markCellExit(marked, dir)]
               /\ PushAndStep(dir)
       ELSE IF isThisDirMarkedTwice(curCell, enteredCurThrough)
       THEN LET dir == getDirFewestMarks(curCell)
                grid == [m_cellsGrid EXCEPT ![<<curRow, curCol>>] = markCellExit(@, dir)]
            IN IF isCellJunctionAllDirFilled(curCell)
               THEN AfterBackTrack(backTrack(traversedPath, grid,
                                             m_entranceCoords[1], m_entranceCoords[2]),
                                   dir, oppositeDirection(dir))
               ELSE /\ m_cellsGrid' = grid
                    /\ PushAndStep(dir)
       ELSE AfterBackTrack(backTrack(traversedPath, m_cellsGrid,
                                     m_entranceCoords[1], m_entranceCoords[2]),
                           enteredCurThrough, exitedPrevThrough)
    /\ LayoutKept
    /\ UNCHANGED <<hostVars, cellVars, mazeVars, wilsonVars>>

\* main loop, current cell is the entrance and has a single exit
TremauxEntranceSingleExit ==
    /\ pc = "tremaux"
    /\ CountStep
    /\ InGrid(curRow, curCol)
    /\ ~AtExit
    /\ ~AtJunction
    /\ isItThisCell(curCell, m_entranceCoords[1], m_entranceCoords[2])
    /\ PushAndStep(getDirFewestMarks(curCell))
    /\ LayoutKept
    /\ UNCHANGED <<hostVars, cellVars, mazeVars, m_cellsGrid, wilsonVars>>

\* main loop, current cell is a dead end
TremauxDeadEnd ==
    /\ pc = "tremaux"
    /\ CountStep
    /\ InGrid(curRow, curCol)
    /\ ~AtExit
    /\ ~AtJunction
    /\ ~isItThisCell(curCell, m_entranceCoords[1], m_entranceCoords[2])
    /\ isCellDeadEnd(curCell)
    /\ AfterBackTrack(backTrack(traversedPath, m_cellsGrid,
                                m_entranceCoords[1], m_entranceCoords[2]),
                      enteredCurThrough, exitedPrevThrough)
    /\ LayoutKept
    /\ UNCHANGED <<hostVars, cellVars, mazeVars, wilsonVars>>

\* main loop, current cell is part of a passageway
TremauxCorridor ==
    /\ pc = "tremaux"
    /\ CountStep
    /\ InGrid(curRow, curCol)
    /\ ~AtExit
    /\ ~AtJunction
    /\ ~isItThisCell(curCell, m_entranceCoords[1], m_entranceCoords[2])
    /\ ~isCellDeadEnd(curCell)
    /\ findDirOnlyOtherExit(curCell, enteredCurThrough) \in Dirs
    /\ PushAndStep(findDirOnlyOtherExit(curCell, enteredCurThrough))
    /\ LayoutKept
    /\ UNCHANGED <<hostVars, cellVars, mazeVars, m_cellsGrid, wilsonVars>>

\* the final loop of runTremaux: every instruction left on the stack labels its cell
\* faulty variant: the loop stops with one instruction left on the stack
RECURSIVE LabelAllButLast(_, _)
LabelAllButLast(stack, grid) ==
    IF Len(stack) <= 1 THEN grid
    ELSE LabelAllButLast(Pop(stack),
                  [grid EXCEPT ![<<Top(stack)[1], Top(stack)[2]>>].m_amIOnPath = TRUE])

RECURSIVE LabelAll(_, _)
LabelAll(stack, grid) ==
    IF stack = <<>> THEN grid
    ELSE LabelAll(Pop(stack),
                  [grid EXCEPT ![<<Top(stack)[1], Top(stack)[2]>>].m_amIOnPath = TRUE])

TremauxLabelPath ==
    /\ pc = "labelPath"
    /\ m_cellsGrid' = LabelAll(traversedPath, m_cellsGrid)
    /\ traversedPath' = <<>>
    /\ pc' = "done"
    /\ LayoutKept
    /\ UNCHANGED <<hostVars, cellVars, mazeVars, readVars, wilsonVars, curRow, curCol,
                   enteredCurThrough, exitedPrevThrough, curBacktrackCell>>

(***************************************************************************)
(* main.cpp: writeMazeDataCSV                                              *)
(***************************************************************************)
\* the "Cells" branch: the string for cell (row, col)
CellKind(row, col) ==
    IF row = m_entranceCoords[1] /\ col = m_entranceCoords[2] THEN "CellEntrance"
    ELSE IF row = m_exitCoords[1] /\ col = m_exitCoords[2] THEN "CellExit"
    ELSE IF m_cellsGrid[<<row, col>>].m_amIOnPath THEN "CellPath"
    ELSE "CellRegular"

\* faulty variant: S is written for an open wall
HorizontalWallDataOpen(row, col) ==
    LET k == <<row, col, row + 1, col>>
    IN IF k \in DOMAIN m_neighborsToWallMap
       THEN IF checkIsOpen(m_neighborsToWallMap[k]) THEN <<"S">> ELSE <<>>
       ELSE <<>>

\* the "Horizontal walls" branch: looks up the wall to the cell below
HorizontalWallData(row, col) ==
    LET k == <<row, col, row + 1, col>>
    IN IF k \in DOMAIN m_neighborsToWallMap
       THEN IF ~checkIsOpen(m_neighborsToWallMap[k]) THEN <<"S">> ELSE <<>>
       ELSE <<>>

\* the "Vertical walls" branch: looks up the wall to the cell on the right
VerticalWallData(row, col) ==
    LET k == <<row, col, row, col + 1>>
    IN IF k \in DOMAIN m_neighborsToWallMap
       THEN IF ~checkIsOpen(m_neighborsToWallMap[k]) THEN <<"E", ",">> ELSE <<",">>
       ELSE <<>>

\* the column loop of one row, from column col on
RECURSIVE ColumnsData(_, _)
ColumnsData(row, col) ==
    IF col >= COLCELLS THEN <<>>
    ELSE <<CellKind(row, col)>> \o HorizontalWallData(row, col) \o VerticalWallData(row, col)
            \o ColumnsData(row, col + 1)

\* rowData as written for one row
rowData(row) ==
    ColumnsData(row, 0) \o <<",">> \o (IF row < ROWCELLS - 1 THEN <<"\n">> ELSE <<>>)

\* main after runTremaux: the header, then one write per row
WriteMazeDataCSV ==
    /\ pc = "done"
    /\ outfile' = <<<<ROWCELLS, ",", COLCELLS, ",", "\n">>>>
                     \o [i \in 1 .. ROWCELLS |-> rowData(i - 1)]
    /\ pc' = "written"
    /\ UNCHANGED <<argc, argv1, cellVars, mazeVars, readVars, m_cellsGrid, m_neighborsToWallMap,
                   m_entranceCoords, m_exitCoords, wilsonVars, curRow, curCol, tremauxVars>>

\* the main loop cannot execute its step: the current cell is outside the grid,
\* or a passageway cell has no other exit (oppositeDirection indexes its array
\* with -1)
StepUndefined ==
    \/ ~InGrid(curRow, curCol)
    \/ /\ InGrid(curRow, curCol)
       /\ ~AtExit
       /\ ~AtJunction
       /\ ~isItThisCell(curCell, m_entranceCoords[1], m_entranceCoords[2])
       /\ ~isCellDeadEnd(curCell)
       /\ findDirOnlyOtherExit(curCell, enteredCurThrough) \notin Dirs

\* Undefined behaviour.
\* pc = "ub": backTrack has called top() on an empty stack.  The build either
\* aborts, or top() yields an indeterminate instruction; backTrack then goes on
\* with it (the assignment through the reference copies that instruction's Cell
\* over the cell the reference is bound to).  The model follows at most
\* MaxIndeterminateReads such reads in a run.
\* An undefined step of the main loop aborts.
UndefinedBehaviour ==
    \/ /\ pc = "ub" \/ (pc = "tremaux" /\ StepUndefined)
       /\ pc' = "crashed"
       /\ LayoutKept
       /\ UNCHANGED <<hostVars, cellVars, mazeVars, readVars, m_cellsGrid, wilsonVars,
                      curRow, curCol, tremauxVars>>
    \/ /\ pc = "ub"
       /\ indeterminateReads < MaxIndeterminateReads
       /\ indeterminateReads' = indeterminateReads + 1
       /\ \E instr \in Cells \X Dirs :
            LET read == <<instr[1][1], instr[1][2], instr[2]>>
                grid == IF curBacktrackCell = NoCell
                        THEN m_cellsGrid
                        ELSE [m_cellsGrid EXCEPT ![curBacktrackCell] = m_cellsGrid[instr[1]]]
                bt == BackTrackLoop(read, <<>>, grid,
                                    m_entranceCoords[1], m_entranceCoords[2])
            IN AfterBackTrack(bt, exitedPrevThrough, enteredCurThrough)
       /\ LayoutKept
       /\ UNCHANGED <<hostVars, cellVars, mazeVars, stepsAfterRead, wilsonVars>>

Next ==
    \/ WilsonInit
    \/ WilsonPickStart
    \/ RandomWalkStep
    \/ WilsonReplayStep
    \/ CreateEntranceAndExit
    \/ RunTremauxBegin
    \/ TremauxAtExit
    \/ TremauxJunction
    \/ TremauxEntranceSingleExit
    \/ TremauxDeadEnd
    \/ TremauxCorridor
    \/ TremauxLabelPath
    \/ WriteMazeDataCSV
    \/ UndefinedBehaviour

Spec == Init /\ [][Next]_vars

(***************************************************************************)
(* main.cpp: main started with a command line                              *)
(***************************************************************************)
\* the characters argv[1] is made of, and the strings of them
ArgChars == {"-", "0", "1", "2", "3", "x"}
ArgDigits == {"0", "1", "2", "3"}
ArgStrings == UNION {[1 .. n -> ArgChars] : n \in 0 .. MaxArgLen}

DigitValue(c) ==
    CASE c = "0" -> 0
      [] c = "1" -> 1
      [] c = "2" -> 2
      [] c = "3" -> 3

\* atoi from position i on: decimal digits up to the first other character
RECURSIVE AtoiDigits(_, _, _)
AtoiDigits(str, i, acc) ==
    IF i > Len(str) \/ str[i] \notin ArgDigits
    THEN acc
    ELSE AtoiDigits(str, i + 1, acc * 10 + DigitValue(str[i]))

\* atoi(argv[1]): an optional sign, then the digits; 0 if there is none
atoi(str) ==
    IF Len(str) > 0 /\ str[1] = "-"
    THEN 0 - AtoiDigits(str, 2, 0)
    ELSE AtoiDigits(str, 1, 0)

\* faulty variant: only a negative count is refused
printUsageNegativeOnly(argCount, arg1) ==
    IF argCount # 2 THEN TRUE ELSE atoi(arg1) < 0

\* printUsage: TRUE when main has to terminate
printUsage(argCount, arg1) ==
    IF argCount # 2 THEN TRUE ELSE atoi(arg1) < 1

\* no Maze exists
NoMaze ==
    /\ ROWCELLS = 0
    /\ COLCELLS = 0
    /\ m_cellsGrid = NewCellsGrid(0, 0)
    /\ m_neighborsToWallMap = NewWallMap(0, 0)
    /\ m_entranceCoords = <<INVALID_ROW_COL, INVALID_ROW_COL>>
    /\ m_exitCoords = <<INVALID_ROW_COL, INVALID_ROW_COL>>

\* neither runWilson nor runTremaux has started
NoRun ==
    /\ inMaze = <<>>
    /\ notInMaze = {}
    /\ unvisitedCells = 0
    /\ walkPath = <<>>
    /\ curRow = INVALID_ROW_COL
    /\ curCol = INVALID_ROW_COL
    /\ rwRow = INVALID_ROW_COL
    /\ rwCol = INVALID_ROW_COL
    /\ randDir = INVALID_CARDINAL_DIRECTION
    /\ traversedPath = <<>>
    /\ enteredCurThrough = INVALID_CARDINAL_DIRECTION
    /\ exitedPrevThrough = INVALID_CARDINAL_DIRECTION
    /\ curBacktrackCell = <<INVALID_ROW_COL, INVALID_ROW_COL>>
    /\ indeterminateReads = 0
    /\ stepsAfterRead = 0

\* main is entered: one to three arguments, argv[1] any string whose count, when
\* it is accepted, gives a grid of at most MaxCells cells
MainInit ==
    /\ pc = "main"
    /\ argc \in 1 .. 3
    /\ argv1 \in ArgStrings
    /\ argc = 1 => argv1 = <<>>
    /\ atoi(argv1) * atoi(argv1) <= MaxCells \/ atoi(argv1) < 1
    /\ outfile = <<>>
    /\ NoCellCall
    /\ NoMaze
    /\ NoRun

\* main: printUsage returns true, main returns -1
PrintUsageTerminates ==
    /\ pc = "main"
    /\ printUsage(argc, argv1)
    /\ pc' = "terminated"
    /\ UNCHANGED <<hostVars, cellVars, mazeVars, readVars, m_cellsGrid, m_neighborsToWallMap,
                   m_entranceCoords, m_exitCoords, wilsonVars, curRow, curCol, tremauxVars>>

\* main: both dimensions are atoi(argv[1]); Maze mainMaze(...) is constructed
MainConstructsMaze ==
    /\ pc = "main"
    /\ ~printUsage(argc, argv1)
    /\ ROWCELLS' = atoi(argv1)
    /\ COLCELLS' = atoi(argv1)
    /\ m_cellsGrid' = NewCellsGrid(atoi(argv1), atoi(argv1))
    /\ m_neighborsToWallMap' = NewWallMap(atoi(argv1), atoi(argv1))
    /\ pc' = "constructed"
    /\ UNCHANGED <<hostVars, cellVars, readVars, m_entranceCoords, m_exitCoords, wilsonVars,
                   curRow, curCol, tremauxVars>>

\* from the constructed Maze on, main goes on as Spec does from its Init
MainNext ==
    \/ PrintUsageTerminates
    \/ MainConstructsMaze

MainSpec == MainInit /\ [][MainNext]_vars

(***************************************************************************)
(* Member functions of Cell, called on one Cell object                     *)
(***************************************************************************)
\* the Cell objects the calls are made on: every slot holds INVALID_EXIT or a
\* mark count up to MaxMarks, and m_numExits counts the slots that hold an exit
CellStates ==
    {[m_rowLoc |-> 0, m_colLoc |-> 0, m_amIOnPath |-> FALSE, m_exits |-> e,
      m_numExits |-> Cardinality({d \in Dirs : e[d] # INVALID_EXIT})] :
        e \in [Dirs -> INVALID_EXIT .. MaxMarks]}

CellInit ==
    /\ pc = "cell"
    /\ NoHost
    /\ NoMaze
    /\ NoRun
    /\ thisCell \in CellStates
    /\ call = [op |-> "none"]

\* the record of a finished call
Called(op, dir, result, error) ==
    [op |-> op, dir |-> dir, before |-> thisCell, result |-> result, error |-> error]

CellIdle == pc = "cell" /\ call.op = "none"

CellRest == UNCHANGED <<pc, hostVars, mazeVars, readVars, m_cellsGrid, m_neighborsToWallMap,
                        m_entranceCoords, m_exitCoords, wilsonVars, curRow, curCol, tremauxVars>>

CallMarkCellExit ==
    /\ CellIdle
    /\ \E dir \in Dirs :
        /\ thisCell' = markCellExit(thisCell, dir)
        /\ call' = Called("markCellExit", dir, FALSE, markCellExitError(thisCell, dir))
    /\ CellRest

CallIsCellDeadEnd ==
    /\ CellIdle
    /\ call' = Called("isCellDeadEnd", INVALID_CARDINAL_DIRECTION, isCellDeadEnd(thisCell), FALSE)
    /\ UNCHANGED thisCell
    /\ CellRest

CallIsCellJunction ==
    /\ CellIdle
    /\ call' = Called("isCellJunction", INVALID_CARDINAL_DIRECTION, isCellJunction(thisCell), FALSE)
    /\ UNCHANGED thisCell
    /\ CellRest

CallIsCellEntranceAndJunction ==
    /\ CellIdle
    /\ call' = Called("isCellEntranceAndJunction", INVALID_CARDINAL_DIRECTION,
                      isCellEntranceAndJunction(thisCell), FALSE)
    /\ UNCHANGED thisCell
    /\ CellRest

CallGetDirFewestMarks ==
    /\ CellIdle
    /\ call' = Called("getDirFewestMarks", INVALID_CARDINAL_DIRECTION,
                      getDirFewestMarks(thisCell), FALSE)
    /\ UNCHANGED thisCell
    /\ CellRest

CallFindDirOnlyOtherExit ==
    /\ CellIdle
    /\ \E dir \in Dirs :
        call' = Called("findDirOnlyOtherExit", dir, findDirOnlyOtherExit(thisCell, dir),
                       findDirOnlyOtherExitError(thisCell, dir))
    /\ UNCHANGED thisCell
    /\ CellRest

CellNext ==
    \/ CallMarkCellExit
    \/ CallIsCellDeadEnd
    \/ CallIsCellJunction
    \/ CallIsCellEntranceAndJunction
    \/ CallGetDirFewestMarks
    \/ CallFindDirOnlyOtherExit

CellSpec == CellInit /\ [][CellNext]_vars

(***************************************************************************)
(* Member functions of Maze, called on a blank Maze with any coordinates   *)
(***************************************************************************)
\* the row and column arguments of the calls: the grid and one step around it
ArgRows == INVALID_ROW_COL .. ROWCELLS
ArgCols == INVALID_ROW_COL .. COLCELLS

\* the range test at the head of the four functions: the error message is written
OutOfGrid(row, col) == row < 0 \/ row >= ROWCELLS \/ col < 0 \/ col >= COLCELLS

MazeCalled(op, row, col, dir, result) ==
    [op |-> op, row |-> row, col |-> col, dir |-> dir, result |-> result,
     error |-> OutOfGrid(row, col)]

MazeIdle == pc = "constructed" /\ call.op = "none"

MazeRest == UNCHANGED <<hostVars, thisCell, mazeVars, readVars, m_neighborsToWallMap,
                        wilsonVars, curRow, curCol, tremauxVars>>

\* labelMazeEntrance: the message if out of range, then the coordinates are stored
CallLabelMazeEntrance ==
    /\ MazeIdle
    /\ \E row \in ArgRows, col \in ArgCols :
        /\ m_entranceCoords' = labelMazeEntrance(row, col)
        /\ call' = MazeCalled("labelMazeEntrance", row, col, INVALID_CARDINAL_DIRECTION, FALSE)
    /\ pc' = "called"
    /\ UNCHANGED <<m_cellsGrid, m_exitCoords>>
    /\ MazeRest

\* labelMazeExit: the message if out of range, then the coordinates are stored
CallLabelMazeExit ==
    /\ MazeIdle
    /\ \E row \in ArgRows, col \in ArgCols :
        /\ m_exitCoords' = labelMazeExit(row, col)
        /\ call' = MazeCalled("labelMazeExit", row, col, INVALID_CARDINAL_DIRECTION, FALSE)
    /\ pc' = "called"
    /\ UNCHANGED <<m_cellsGrid, m_entranceCoords>>
    /\ MazeRest

\* updateCellExits: the message if out of range, then m_cellsGrid[row][col] is
\* written in any case.  Out of range that write is undefined: the build aborts,
\* or the write lands outside every Cell, or on a Cell of another row's array.
CallUpdateCellExits ==
    /\ MazeIdle
    /\ \E row \in ArgRows, col \in ArgCols, dir \in Dirs :
        /\ call' = MazeCalled("updateCellExits", row, col, dir, FALSE)
        /\ \/ /\ ~OutOfGrid(row, col)
              /\ m_cellsGrid' = updateCellExits(m_cellsGrid, row, col, dir)
              /\ pc' = "called"
           \/ /\ OutOfGrid(row, col)
              /\ UNCHANGED m_cellsGrid
              /\ pc' = "crashed"
           \/ /\ OutOfGrid(row, col)
              /\ UNCHANGED m_cellsGrid
              /\ pc' = "called"
           \/ /\ OutOfGrid(row, col)
              /\ \E hit \in Cells : m_cellsGrid' = updateCellExits(m_cellsGrid, hit[1], hit[2], dir)
              /\ pc' = "called"
    /\ UNCHANGED <<m_entranceCoords, m_exitCoords>>
    /\ MazeRest

\* findCell: the message if out of range, then a reference to m_cellsGrid[row][col]
\* is returned in any case.  Out of range the build aborts or the reference
\* names memory that holds no Cell of the grid.
CallFindCell ==
    /\ MazeIdle
    /\ \E row \in ArgRows, col \in ArgCols :
        \/ /\ ~OutOfGrid(row, col)
           /\ call' = MazeCalled("findCell", row, col, INVALID_CARDINAL_DIRECTION,
                                 m_cellsGrid[<<row, col>>])
           /\ pc' = "called"
        \/ /\ OutOfGrid(row, col)
           /\ call' = MazeCalled("findCell", row, col, INVALID_CARDINAL_DIRECTION, "indeterminate")
           /\ pc' \in {"called", "crashed"}
    /\ UNCHANGED <<m_cellsGrid, m_entranceCoords, m_exitCoords>>
    /\ MazeRest

MazeNext ==
    \/ CallLabelMazeEntrance
    \/ CallLabelMazeExit
    \/ CallUpdateCellExits
    \/ CallFindCell

MazeSpec == Init /\ [][MazeNext]_vars

(***************************************************************************)
(* The open-wall graph                                                     *)
(***************************************************************************)
GridAdjacent(p, q) ==
    \/ (p[1] = q[1] /\ (p[2] = q[2] + 1 \/ q[2] = p[2] + 1))
    \/ (p[2] = q[2] /\ (p[1] = q[1] + 1 \/ q[1] = p[1] + 1))

RowMajorLess(p, q) == p[1] < q[1] \/ (p[1] = q[1] /\ p[2] < q[2])

\* the grid-adjacent pairs, row-major-smaller cell first
AdjacentPairs == {pq \in Cells \X Cells : GridAdjacent(pq[1], pq[2]) /\ RowMajorLess(pq[1], pq[2])}

WallKey(pq) == <<pq[1][1], pq[1][2], pq[2][1], pq[2][2]>>

OpenWalls == {k \in DOMAIN m_neighborsToWallMap : checkIsOpen(m_neighborsToWallMap[k])}

\* marks[q] is set for the cells reachable from the marked cells through the walls in W
RECURSIVE ReachMarks(_, _)
ReachMarks(marks, W) ==
    LET more == [q \in Cells |->
                    marks[q] \/ \E p \in Cells : /\ marks[p]
                                                 /\ \/ <<p[1], p[2], q[1], q[2]>> \in W
                                                    \/ <<q[1], q[2], p[1], p[2]>> \in W]
    IN IF more = marks THEN marks ELSE ReachMarks(more, W)

ReachThrough(S, W) ==
    LET marks == ReachMarks([q \in Cells |-> q \in S], W)
    IN {q \in Cells : marks[q]}

\* every cell is reachable from cell (0, 0)
ConnectedBy(W) == ReachThrough({<<0, 0>>}, W) = Cells

\* no open wall lies on a cycle: without it its two cells are disconnected
AcyclicWalls(W) ==
    \A k \in W : <<k[3], k[4]>> \notin ReachThrough({<<k[1], k[2]>>}, W \ {k})

\* in a tree, c is on the path a .. b iff c is an end or separates a from b
PathCells(a, b) ==
    {c \in Cells : c = a \/ c = b
        \/ b \notin ReachThrough({a}, {k \in OpenWalls : <<k[1], k[2]>> # c /\ <<k[3], k[4]>> # c})}

LabeledCells == {p \in Cells : m_cellsGrid[p].m_amIOnPath}

PassageCount(cell) == Cardinality({d \in Dirs : cell.m_exits[d] # INVALID_EXIT})

RunWilsonReturned == pc = "generated"

\* no top() on an empty stack has returned an indeterminate value so far
Defined == indeterminateReads = 0

\* main passes the same count for rows and columns
SquareMaze == ROWCELLS = COLCELLS

(***************************************************************************)
(* Properties                                                              *)
(***************************************************************************)

\* C1: when runWilson returns, the open walls number ROWCELLS*COLCELLS - 1, connect
\* every cell to every other cell, and contain no cycle.
SpanningTreeAfterGeneration ==
    RunWilsonReturned =>
        /\ Cardinality(OpenWalls) = ROWCELLS * COLCELLS - 1
        /\ ConnectedBy(OpenWalls)
        /\ AcyclicWalls(OpenWalls)

SpanningTreeWitness ==
    /\ RunWilsonReturned
    /\ ROWCELLS = 3 /\ COLCELLS = 3
    /\ Cardinality(OpenWalls) = 8

\* C2: on the square mazes main builds, when the solver has finished, the cells labeled onPath are exactly the cells
\* of the open-passage path from the entrance to the exit.
LabelsAreThePath ==
    (SquareMaze /\ pc = "done") => LabeledCells = PathCells(m_entranceCoords, m_exitCoords)

\* C3: on a generated square maze every iteration of the solver's main loop is a defined
\* step: the solver is never stuck in a call of top() on an empty stack.
SolverNeverStuck ==
    (SquareMaze /\ Defined /\ pc \in {"tremaux", "ub", "crashed"}) =>
        (pc = "tremaux" /\ ~StepUndefined)

\* C4: with at least 2 rows and 2 columns, after createEntranceAndExit the entrance
\* and the exit are border cells and differ.
OnBorder(p) ==
    /\ p \in Cells
    /\ (p[1] = 0 \/ p[1] = ROWCELLS - 1 \/ p[2] = 0 \/ p[2] = COLCELLS - 1)

EntranceExitOnBorderDistinct ==
    (RunWilsonReturned /\ ROWCELLS >= 2 /\ COLCELLS >= 2) =>
        /\ OnBorder(m_entranceCoords)
        /\ OnBorder(m_exitCoords)
        /\ m_entranceCoords # m_exitCoords

EntranceExitWitness ==
    /\ RunWilsonReturned
    /\ ROWCELLS = 3 /\ COLCELLS = 3
    /\ m_entranceCoords = <<0, 1>>
    /\ m_exitCoords = <<1, 2>>

\* C5: in every state of a square maze, solving included, the mark count of every passage is 0, 1 or 2.
MarksAtMostTwo ==
    (SquareMaze /\ Defined) =>
        \A p \in Cells : \A d \in Dirs : m_cellsGrid[p].m_exits[d] <= VALID_EXIT_TWO_MARKS

\* C6: in every state of a square maze the wall between two grid-adjacent cells is open iff each of the two cells
\* records a passage towards the other.
DirectionTo(p, q) ==
    CASE q[1] = p[1] - 1 -> NORTH_DIRECTION
      [] q[1] = p[1] + 1 -> SOUTH_DIRECTION
      [] q[2] = p[2] + 1 -> EAST_DIRECTION
      [] q[2] = p[2] - 1 -> WEST_DIRECTION

WallOpenIffPassages ==
    (SquareMaze /\ Defined) =>
        \A pq \in AdjacentPairs :
            checkIsOpen(m_neighborsToWallMap[WallKey(pq)])
                <=> /\ m_cellsGrid[pq[1]].m_exits[DirectionTo(pq[1], pq[2])] # INVALID_EXIT
                    /\ m_cellsGrid[pq[2]].m_exits[DirectionTo(pq[2], pq[1])] # INVALID_EXIT

\* C7: every cell's exit count is the number of its direction slots that hold a passage.
ExitCountMatchesSlots ==
    \A p \in Cells : m_cellsGrid[p].m_numExits = PassageCount(m_cellsGrid[p])

ExitCountWitness ==
    /\ pc = "tremaux"
    /\ \E p \in Cells : /\ m_cellsGrid[p].m_numExits = 3
                        /\ \E d \in Dirs : m_cellsGrid[p].m_exits[d] = VALID_EXIT_TWO_MARKS

\* C9: the constructed Maze has ROWCELLS*COLCELLS cells without any passage, one
\* closed wall for every grid-adjacent pair, keyed smaller cell first, and neither
\* entrance nor exit.
BlankMazeAfterConstruction ==
    pc = "constructed" =>
        /\ DOMAIN m_cellsGrid = Cells
        /\ Cardinality(DOMAIN m_cellsGrid) = ROWCELLS * COLCELLS
        /\ \A p \in Cells : \A d \in Dirs : m_cellsGrid[p].m_exits[d] = INVALID_EXIT
        /\ DOMAIN m_neighborsToWallMap = {WallKey(pq) : pq \in AdjacentPairs}
        /\ Cardinality(DOMAIN m_neighborsToWallMap)
              = ROWCELLS * (COLCELLS - 1) + (ROWCELLS - 1) * COLCELLS
        /\ \A k \in DOMAIN m_neighborsToWallMap : ~checkIsOpen(m_neighborsToWallMap[k])
        /\ m_entranceCoords = <<INVALID_ROW_COL, INVALID_ROW_COL>>
        /\ m_exitCoords = <<INVALID_ROW_COL, INVALID_ROW_COL>>

BlankMazeWitness ==
    /\ pc = "constructed"
    /\ ROWCELLS = 3 /\ COLCELLS = 3
    /\ Cardinality(DOMAIN m_neighborsToWallMap) = 12

\* C10: in every state of a square maze the cell stored at grid position (r, c) reports the identity (r, c).
CellIdentityKept ==
    (SquareMaze /\ Defined) =>
        \A p \in Cells : isItThisCell(m_cellsGrid[p], p[1], p[2])

\* the call recorded in call was made on a Cell with a passage in direction d
HadPassage(d) == call.before.m_exits[d] # INVALID_EXIT

\* C11: markCellExit(d) on a Cell with a passage in direction d raises that slot by
\* exactly 1, leaves the other slots and m_numExits as they were and reports no
\* error; without a passage in direction d it reports an error and the Cell is
\* unchanged.
MarkCellExitContract ==
    call.op = "markCellExit" =>
        IF HadPassage(call.dir)
        THEN /\ thisCell.m_exits[call.dir] = call.before.m_exits[call.dir] + 1
             /\ \A e \in Dirs \ {call.dir} : thisCell.m_exits[e] = call.before.m_exits[e]
             /\ thisCell.m_numExits = call.before.m_numExits
             /\ ~call.error
        ELSE /\ call.error
             /\ thisCell = call.before

MarkCellExitWitness ==
    /\ call.op = "markCellExit"
    /\ ~HadPassage(call.dir)
    /\ PassageCount(call.before) = 2
    /\ call.error

\* C17: isCellDeadEnd answers TRUE exactly for one passage, isCellJunction exactly
\* for more than two, isCellEntranceAndJunction exactly for two or more.
PredicatesMatchPassageCount ==
    /\ call.op = "isCellDeadEnd" => (call.result <=> PassageCount(call.before) = 1)
    /\ call.op = "isCellJunction" => (call.result <=> PassageCount(call.before) > 2)
    /\ call.op = "isCellEntranceAndJunction" => (call.result <=> PassageCount(call.before) >= 2)

\* C18: on a Cell with at least one passage getDirFewestMarks returns a direction
\* with a passage whose mark count is minimal among the passages, the first such
\* direction in the order North, South, East, West.
FewestMarksIsFirstMinimum ==
    (call.op = "getDirFewestMarks" /\ PassageCount(call.before) >= 1) =>
        /\ call.result \in Dirs
        /\ HadPassage(call.result)
        /\ \A e \in Dirs : HadPassage(e) =>
                call.before.m_exits[call.result] <= call.before.m_exits[e]
        /\ \A e \in Dirs : (HadPassage(e) /\ e < call.result) =>
                call.before.m_exits[call.result] < call.before.m_exits[e]

FewestMarksWitness ==
    /\ call.op = "getDirFewestMarks"
    /\ call.result = EAST_DIRECTION
    /\ call.before.m_exits[NORTH_DIRECTION] = VALID_EXIT_TWO_MARKS
    /\ call.before.m_exits[EAST_DIRECTION] = VALID_EXIT_ONE_MARK
    /\ call.before.m_exits[WEST_DIRECTION] = VALID_EXIT_ONE_MARK

\* C19: findDirOnlyOtherExit(d) on a Cell with exactly two passages, d one of them,
\* returns the other passage; on any other Cell or d it returns no usable
\* direction.
OtherExitContract ==
    call.op = "findDirOnlyOtherExit" =>
        IF PassageCount(call.before) = 2 /\ HadPassage(call.dir)
        THEN /\ call.result \in Dirs \ {call.dir}
             /\ HadPassage(call.result)
        ELSE call.result \notin Dirs

\* C12: a call of labelMazeEntrance, labelMazeExit, updateCellExits or findCell with
\* coordinates outside the grid is fatal: execution does not go on after it, and
\* neither the entrance nor the exit has been given those coordinates.
OutOfGridIsFatal ==
    (call.op \in {"labelMazeEntrance", "labelMazeExit", "updateCellExits", "findCell"}
        /\ ~InGrid(call.row, call.col)) =>
        /\ pc # "called"
        /\ call.op = "labelMazeEntrance" =>
                m_entranceCoords = <<INVALID_ROW_COL, INVALID_ROW_COL>>
        /\ call.op = "labelMazeExit" =>
                m_exitCoords = <<INVALID_ROW_COL, INVALID_ROW_COL>>

TwoByTwo == ROWCELLS = 2 /\ COLCELLS = 2

TwoByTwoScenario ==
    TwoByTwo =>
        /\ Cardinality(DOMAIN m_neighborsToWallMap) = 4
        /\ pc = "generated" =>
                /\ Cardinality(OpenWalls) = 3
                /\ ConnectedBy(OpenWalls)
                /\ AcyclicWalls(OpenWalls)
        /\ pc \notin {"ub", "crashed"}
        /\ pc \in {"done", "written"} =>
                /\ LabeledCells = PathCells(m_entranceCoords, m_exitCoords)
                /\ Cardinality(LabeledCells) >= 2
                /\ Cardinality(LabeledCells) <= 4

TwoByTwoWitness ==
    /\ TwoByTwo
    /\ pc = "done"
    /\ Cardinality(LabeledCells) = 3

\* C15: with at least 2 rows and 2 columns, an entrance in a corner of the grid has
\* its exit in the diagonally opposite corner.
IsCorner(p) ==
    /\ p[1] \in {0, ROWCELLS - 1}
    /\ p[2] \in {0, COLCELLS - 1}

CornerEntranceOppositeExit ==
    (RunWilsonReturned /\ ROWCELLS >= 2 /\ COLCELLS >= 2 /\ IsCorner(m_entranceCoords)) =>
        m_exitCoords = <<ROWCELLS - 1 - m_entranceCoords[1], COLCELLS - 1 - m_entranceCoords[2]>>

CornerEntranceWitness ==
    /\ RunWilsonReturned
    /\ ROWCELLS = 2 /\ COLCELLS = 4
    /\ m_entranceCoords = <<1, 0>>
    /\ m_exitCoords = <<0, 3>>

\* C16: with at least 2 rows and 2 columns, an entrance that is not in a corner and
\* the exit are on no common side of the border.
OnSide(p, side) ==
    CASE side = NORTH_DIRECTION -> p[1] = 0
      [] side = SOUTH_DIRECTION -> p[1] = ROWCELLS - 1
      [] side = EAST_DIRECTION -> p[2] = COLCELLS - 1
      [] side = WEST_DIRECTION -> p[2] = 0

ExitOffEntranceSide ==
    (RunWilsonReturned /\ ROWCELLS >= 2 /\ COLCELLS >= 2 /\ ~IsCorner(m_entranceCoords)) =>
        /\ \E side \in Dirs : OnSide(m_exitCoords, side)
        /\ \A side \in Dirs : ~(OnSide(m_entranceCoords, side) /\ OnSide(m_exitCoords, side))

ExitOffEntranceSideWitness ==
    /\ RunWilsonReturned
    /\ ROWCELLS = 3 /\ COLCELLS = 3
    /\ m_entranceCoords = <<1, 2>>
    /\ m_exitCoords = <<0, 1>>

\* the text of the file's line for grid row r, without the line end
RowText(r) == SelectSeq(outfile[r + 2], LAMBDA t : t # "\n")

KindOf(p) ==
    IF p = m_entranceCoords THEN "CellEntrance"
    ELSE IF p = m_exitCoords THEN "CellExit"
    ELSE IF p \in LabeledCells THEN "CellPath"
    ELSE "CellRegular"

\* there is a cell q next to p and the wall between them is closed
ClosedWallTo(p, q) ==
    /\ q \in Cells
    /\ ~checkIsOpen(m_neighborsToWallMap[<<p[1], p[2], q[1], q[2]>>])

SouthLetter(p) == IF ClosedWallTo(p, <<p[1] + 1, p[2]>>) THEN <<"S">> ELSE <<>>
EastLetter(p) == IF ClosedWallTo(p, <<p[1], p[2] + 1>>) THEN <<"E">> ELSE <<>>

\* kind, S, E, comma for every column from c on
RECURSIVE FieldsThenCommas(_, _)
FieldsThenCommas(r, c) ==
    IF c >= COLCELLS THEN <<>>
    ELSE <<KindOf(<<r, c>>)>> \o SouthLetter(<<r, c>>) \o EastLetter(<<r, c>>) \o <<",">>
            \o FieldsThenCommas(r, c + 1)

\* kind, S, comma, E for every column from c on
RECURSIVE CommaBeforeEast(_, _)
CommaBeforeEast(r, c) ==
    IF c >= COLCELLS THEN <<>>
    ELSE <<KindOf(<<r, c>>)>> \o SouthLetter(<<r, c>>) \o <<",">> \o EastLetter(<<r, c>>)
            \o CommaBeforeEast(r, c + 1)

\* C20 (as stated): each row of the written file holds, for every column, the cell
\* kind, S when the wall below is closed, a comma, E when the wall on the right is
\* closed, and after the last column one more comma.
CsvRowAsStated ==
    pc = "written" =>
        \A r \in 0 .. ROWCELLS - 1 : RowText(r) = CommaBeforeEast(r, 0) \o <<",">>

\* C20 (amended): each row of the written file holds, for every column, the cell
\* kind, S when the wall below is closed, E when the wall on the right is closed,
\* and then exactly one comma; the comma of the last column ends the row.
CsvRowFieldThenComma ==
    pc = "written" =>
        /\ Len(outfile) = ROWCELLS + 1
        /\ \A r \in 0 .. ROWCELLS - 1 : RowText(r) = FieldsThenCommas(r, 0)

CsvRowWitness ==
    /\ pc = "written"
    /\ ROWCELLS = 2 /\ COLCELLS = 2
    /\ RowText(0) = <<"CellEntrance", "E", ",", "CellRegular", ",">>
    /\ RowText(1) = <<"CellPath", ",", "CellExit", ",">>

(***************************************************************************)
(* Generation: the records of runWilson                                    *)
(***************************************************************************)
\* runWilson is between its set-up and its final check
Generating == pc \in {"wilsonLoop", "randomWalk", "replay"}

\* the cells the inMaze array holds true for
InTree == {p \in Cells : inMaze[p] = TRUE}

\* the key of the wall between the neighbours p and q: the row-major smaller first
WallBetween(p, q) == IF RowMajorLess(p, q) THEN WallKey(<<p, q>>) ELSE WallKey(<<q, p>>)

\* the cells met when the recorded directions are followed from p, and how that
\* ends: at a cell in the maze ("tree"), at a cell met before ("repeat"), at a
\* cell without recorded direction ("miss"), or outside the grid ("outside")
RECURSIVE FollowRecorded(_, _)
FollowRecorded(p, met) ==
    IF p \notin Cells THEN [kind |-> "outside", cells |-> met]
    ELSE IF inMaze[p] = TRUE THEN [kind |-> "tree", cells |-> met]
    ELSE IF \E i \in 1 .. Len(met) : met[i] = p THEN [kind |-> "repeat", cells |-> met]
    ELSE IF p \notin DOMAIN walkPath THEN [kind |-> "miss", cells |-> met]
    ELSE FollowRecorded(takeStep(p[1], p[2], walkPath[p]), Append(met, p))

\* C22: throughout generation a cell is a key of notInMaze exactly when its inMaze
\* entry is false, so the two records are disjoint and cover the grid; before the
\* first walk exactly one cell is in the maze.
TreeSetsPartition ==
    /\ (Generating \/ RunWilsonReturned) =>
            /\ notInMaze \subseteq Cells
            /\ \A p \in Cells : (p \in notInMaze) <=> (inMaze[p] = FALSE)
    /\ (pc = "wilsonLoop" /\ OpenWalls = {}) =>
            /\ Cardinality(InTree) = 1
            /\ Cardinality(notInMaze) = ROWCELLS * COLCELLS - 1

TreeSetsWitness ==
    /\ pc = "replay"
    /\ ROWCELLS = 3 /\ COLCELLS = 3
    /\ Cardinality(InTree) = 4
    /\ Cardinality(notInMaze) = 5

\* C23: a replay step opens exactly one wall, closed before, between the current
\* cell (not in the maze) and the cell its recorded direction leads to; the key,
\* smaller cell first, is in the wall map; exactly the current cell joins the
\* maze.  At every walk boundary the open walls number one less than the cells in
\* the maze, lie on no cycle, and no cell outside the maze has a passage.
ReplayOpensOneWall ==
    /\ [](pc = "wilsonLoop" =>
            /\ Cardinality(OpenWalls) = Cardinality(InTree) - 1
            /\ AcyclicWalls(OpenWalls)
            /\ \A p \in notInMaze : PassageCount(m_cellsGrid[p]) = 0)
    /\ [][pc = "replay" =>
            LET cur == <<curRow, curCol>>
                next == takeStep(curRow, curCol, walkPath[cur])
            IN /\ cur \notin InTree
               /\ next \in Cells
               /\ WallBetween(cur, next) \in DOMAIN m_neighborsToWallMap
               /\ WallBetween(cur, next) \notin OpenWalls
               /\ OpenWalls' = OpenWalls \cup {WallBetween(cur, next)}
               /\ InTree' = InTree \cup {cur}]_vars

ReplayWitness ==
    /\ pc = "wilsonLoop"
    /\ ROWCELLS = 3 /\ COLCELLS = 3
    /\ Cardinality(InTree) = 5
    /\ Cardinality(OpenWalls) = 4

\* C24: when randomWalk has returned, and all through the replay, following the
\* recorded directions from the current cell meets no cell twice, finds a
\* recorded direction at every cell, meets only cells outside the maze and ends
\* at the first cell in the maze.  A step of the walk records the direction it
\* leaves its cell through, replacing what was recorded for that cell, and
\* changes no other entry.
RecordedPathIsSimple ==
    /\ [](pc = "replay" => FollowRecorded(<<curRow, curCol>>, <<>>).kind = "tree")
    /\ [][(pc = "randomWalk" /\ randDir' = INVALID_CARDINAL_DIRECTION) =>
            LET here == <<rwRow, rwCol>>
            IN /\ DOMAIN walkPath' = DOMAIN walkPath \cup {here}
               /\ \A p \in DOMAIN walkPath \ {here} : walkPath'[p] = walkPath[p]
               /\ IF pc' = "randomWalk"
                  THEN takeStep(rwRow, rwCol, walkPath'[here]) = <<rwRow', rwCol'>>
                  ELSE takeStep(rwRow, rwCol, walkPath'[here]) \in InTree]_vars

\* the walk has just returned and has left a recorded direction at a cell that is
\* not on the path: a loop has been erased
RecordedPathWitness ==
    /\ pc = "replay"
    /\ <<curRow, curCol>> = MapBegin(notInMaze)
    /\ LET followed == FollowRecorded(<<curRow, curCol>>, <<>>)
       IN /\ followed.kind = "tree"
          /\ Len(followed.cells) >= 2
          /\ \E p \in DOMAIN walkPath : \A i \in 1 .. Len(followed.cells) : followed.cells[i] # p

\* C25: during a random walk the position is inside the grid; a drawn direction
\* that leads out of the grid is only redrawn (no direction is recorded, the
\* position stays); the out-of-grid error branches of randomWalk and runWilson
\* are not reached; the walk changes neither the maze nor the records of the
\* cells in and outside the maze.
WalkStaysInGrid ==
    /\ [](pc = "randomWalk" => InGrid(rwRow, rwCol))
    /\ [](pc \in {"randomWalk", "replay"} => InGrid(curRow, curCol))
    /\ [](pc # "walkError")
    /\ [][pc = "randomWalk" =>
            /\ UNCHANGED <<m_cellsGrid, m_neighborsToWallMap, m_entranceCoords, m_exitCoords,
                           inMaze, notInMaze, unvisitedCells>>
            /\ randDir' \in Dirs =>
                    /\ takeStep(rwRow, rwCol, randDir') \notin Cells
                    /\ UNCHANGED <<walkPath, rwRow, rwCol, pc>>
            /\ randDir' \notin Dirs =>
                    takeStep(rwRow, rwCol, walkPath'[<<rwRow, rwCol>>]) \in Cells]_vars
    /\ [][pc = "replay" =>
            takeStep(curRow, curCol, walkPath[<<curRow, curCol>>]) \in Cells]_vars

\* in the middle of a walk a draw towards the outside of the grid was refused
WalkRedrawWitness ==
    /\ pc = "randomWalk"
    /\ randDir = NORTH_DIRECTION
    /\ rwRow = 0
    /\ <<rwRow, rwCol>> # <<curRow, curCol>>
    /\ walkPath # <<>>

\* C27: during generation unvisitedCells is the number of cells in notInMaze, so
\* the main loop ends only with notInMaze empty and runWilson's "did not fill the
\* maze out" branch is not taken.
CounterMatchesNotInMaze ==
    /\ Generating => unvisitedCells = Cardinality(notInMaze)
    /\ (pc = "wilsonLoop" /\ ~(unvisitedCells > 0 /\ notInMaze # {})) => notInMaze = {}
    /\ RunWilsonReturned => notInMaze = {}

CounterWitness ==
    /\ pc = "wilsonLoop"
    /\ ROWCELLS = 3 /\ COLCELLS = 3
    /\ unvisitedCells = 3
    /\ Cardinality(notInMaze) = 3

(***************************************************************************)
(* Generation under fair draws                                             *)
(***************************************************************************)
\* the number of steps of a walk from p to q: the walk moves between grid
\* neighbours, whatever the walls
GridSteps(p, q) ==
    (IF p[1] < q[1] THEN q[1] - p[1] ELSE p[1] - q[1])
        + (IF p[2] < q[2] THEN q[2] - p[2] ELSE p[2] - q[2])

\* the number of steps from p to the nearest cell in the maze
StepsToTree(p) ==
    LET all == {GridSteps(p, t) : t \in InTree}
    IN CHOOSE k \in all : \A j \in all : k <= j

\* a step of the walk from a cell k steps away from the maze to a cell nearer to it
DrawTowardsTree(k) ==
    /\ RandomWalkStep
    /\ StepsToTree(<<rwRow, rwCol>>) = k
    /\ pc' = "replay" \/ (pc' = "randomWalk" /\ StepsToTree(<<rwRow', rwCol'>>) = k - 1)

\* runWilson alone
WilsonNext ==
    \/ WilsonInit
    \/ WilsonPickStart
    \/ RandomWalkStep
    \/ WilsonReplayStep
    \/ CreateEntranceAndExit

FairInit ==
    /\ Init
    /\ ROWCELLS * COLCELLS <= MaxFairCells

\* faulty variant: the walk keeps drawing, but no draw is ever owed to it
NoWalkFairness == WF_vars(RandomWalkStep)

\* fair draws: every direction that stays in the grid is drawn again and again at
\* a cell the walk keeps coming back to.  What is used of it: a walk that is again
\* and again k steps away from the maze again and again steps nearer to it.
WalkFairness == \A k \in 1 .. MaxFairCells : SF_vars(DrawTowardsTree(k))

\* the program does not stop between two statements
FairWilsonSpec == FairInit /\ [][WilsonNext]_vars /\ WF_vars(WilsonNext) /\ WalkFairness

\* C26: under fair draws every random walk returns (it has reached a cell in the
\* maze) and runWilson returns with entrance and exit set.
WalksEndGenerationFinishes ==
    /\ (pc = "randomWalk") ~> (pc = "replay")
    /\ <>(RunWilsonReturned /\ m_entranceCoords \in Cells /\ m_exitCoords \in Cells)

\* a walk is back at a cell it has left before
WalkLoopWitness ==
    /\ pc = "randomWalk"
    /\ ROWCELLS = 2 /\ COLCELLS = 3
    /\ <<rwRow, rwCol>> \in DOMAIN walkPath
    /\ StepsToTree(<<rwRow, rwCol>>) = 3

(***************************************************************************)
(* Solving: the stack of instructions                                      *)
(***************************************************************************)
\* the cells of the instructions on the stack, bottom first, then the current cell
Trail ==
    [i \in 1 .. Len(traversedPath) |-> <<traversedPath[i][1], traversedPath[i][2]>>]
        \o <<<<curRow, curCol>>>>

\* the stack and the current cell are the open-passage path from the entrance
TrailFromEntrance ==
    /\ Trail[1] = m_entranceCoords
    /\ \A i \in 1 .. Len(traversedPath) :
            /\ traversedPath[i][3] \in Dirs
            /\ m_cellsGrid[Trail[i]].m_exits[traversedPath[i][3]] # INVALID_EXIT
            /\ takeStep(Trail[i][1], Trail[i][2], traversedPath[i][3]) = Trail[i + 1]
            /\ WallBetween(Trail[i], Trail[i + 1]) \in OpenWalls
    /\ \A i, j \in 1 .. Len(Trail) : Trail[i] = Trail[j] => i = j
    /\ {Trail[i] : i \in 1 .. Len(Trail)} = PathCells(m_entranceCoords, <<curRow, curCol>>)

\* C28: on a square maze, at every iteration of the solver's main loop the cells of
\* the instructions on the stack, bottom first, followed by the current cell, are
\* the open-passage path from the entrance to the current cell: each
\* instruction's direction is a passage of its cell and leads to the next cell,
\* and no cell appears twice.
TrailIsThePath ==
    (SquareMaze /\ pc = "tremaux") => TrailFromEntrance

\* the same, as long as no top() on an empty stack has returned
TrailIsThePathWhileDefined ==
    (pc = "tremaux" /\ Defined) => TrailFromEntrance

\* this iteration of the main loop calls backTrack: from a dead end, from a
\* junction entered through a direction marked once while other directions are
\* marked, or from a junction with all directions but one marked twice
CallsBackTrack ==
    /\ pc = "tremaux"
    /\ InGrid(curRow, curCol)
    /\ ~AtExit
    /\ \/ /\ AtJunction
          /\ enteredCurThrough # INVALID_CARDINAL_DIRECTION
          /\ ~isOnlyThisDirMarked(curCell, enteredCurThrough)
          /\ isThisDirMarkedTwice(curCell, enteredCurThrough) => isCellJunctionAllDirFilled(curCell)
       \/ /\ ~AtJunction
          /\ ~isItThisCell(curCell, m_entranceCoords[1], m_entranceCoords[2])
          /\ isCellDeadEnd(curCell)

\* the cell at p has more than two passages, or is the entrance and has at least two
IsTurnBack(p) ==
    \/ PassageCount(m_cellsGrid[p]) > 2
    \/ (p = m_entranceCoords /\ PassageCount(m_cellsGrid[p]) >= 2)

\* the topmost instruction on the stack whose cell is such a cell (0: there is none)
TurnBackIndex ==
    LET found == {i \in 1 .. Len(traversedPath) : IsTurnBack(Trail[i])}
    IN IF found = {} THEN 0 ELSE CHOOSE i \in found : \A j \in found : j <= i

\* the stack is cut below the topmost junction instruction, and that junction is
\* the current cell, entered through the instruction's direction
BackTrackReturnsToJunction ==
    LET j == TurnBackIndex
    IN /\ j > 0
       /\ traversedPath' = SubSeq(traversedPath, 1, j - 1)
       /\ <<curRow', curCol'>> = Trail[j]
       /\ enteredCurThrough' = traversedPath[j][3]

\* the instruction's direction at that junction gets its second mark
BackTrackMarksSecond ==
    LET j == TurnBackIndex
        c == Trail[j]
        d == traversedPath[j][3]
    IN /\ m_cellsGrid'[c].m_exits[d] = m_cellsGrid[c].m_exits[d] + 1
       /\ m_cellsGrid'[c].m_exits[d] = VALID_EXIT_TWO_MARKS

\* no other cell's slots change (the cell the backtrack starts from aside: a
\* closed junction is marked by the main loop before backTrack is called)
BackTrackLeavesOthers ==
    \A p \in Cells \ {Trail[TurnBackIndex], <<curRow, curCol>>} :
        m_cellsGrid'[p].m_exits = m_cellsGrid[p].m_exits

\* C29: on a square maze a backtrack pops instructions down to the topmost one
\* whose cell is a junction or the entrance with at least two passages, raises
\* the mark count of that instruction's direction at that cell by one, to 2,
\* makes that cell the current cell, entered through that direction, pops that
\* instruction, and changes the marks of no other cell.
BackTrackContract ==
    [][(SquareMaze /\ Defined /\ CallsBackTrack /\ pc' = "tremaux") =>
            /\ BackTrackReturnsToJunction
            /\ BackTrackMarksSecond
            /\ BackTrackLeavesOthers]_vars

\* the main loop is at a junction entered through a direction marked twice, with
\* all passages but one marked twice
AtClosedJunction ==
    /\ pc = "tremaux"
    /\ InGrid(curRow, curCol)
    /\ ~AtExit
    /\ AtJunction
    /\ enteredCurThrough # INVALID_CARDINAL_DIRECTION
    /\ ~isOnlyThisDirMarked(curCell, enteredCurThrough)
    /\ isThisDirMarkedTwice(curCell, enteredCurThrough)
    /\ isCellJunctionAllDirFilled(curCell)

\* the passages of the current cell that are not marked twice
RemainingDirs ==
    {d \in Dirs : curCell.m_exits[d] # INVALID_EXIT /\ curCell.m_exits[d] < VALID_EXIT_TWO_MARKS}

\* what the step from a closed junction does: the one remaining direction, which
\* leads back to the cell of the topmost instruction, is marked; nothing is
\* pushed; the current cell becomes the topmost junction on the stack (no step
\* is taken: that junction may be any number of cells away)
ClosedJunctionStep ==
    LET here == <<curRow, curCol>>
    IN /\ \E r \in RemainingDirs :
            /\ RemainingDirs = {r}
            /\ m_cellsGrid'[here].m_exits =
                    [curCell.m_exits EXCEPT ![r] = curCell.m_exits[r] + 1]
            /\ traversedPath # <<>>
            /\ takeStep(curRow, curCol, r) = Trail[Len(traversedPath)]
       /\ pc' = "tremaux"
       /\ Len(traversedPath') < Len(traversedPath)
       /\ BackTrackReturnsToJunction

\* C30: on a square maze, at a junction entered through a direction marked twice
\* and with all passages but one marked twice, the solver marks the one remaining
\* direction, pushes no instruction, does not step through that direction and
\* backtracks to the topmost junction on the stack; the remaining direction is
\* the way back towards the entrance, every other branch having been explored.
ClosedJunctionBacktracks ==
    [][(SquareMaze /\ Defined /\ AtClosedJunction) => ClosedJunctionStep]_vars

\* the same for the junctions other than the entrance
ClosedJunctionBacktracksOffEntrance ==
    [][(Defined /\ AtClosedJunction /\ <<curRow, curCol>> # m_entranceCoords)
            => ClosedJunctionStep]_vars

(***************************************************************************)
(* Solving: the rules of the main loop                                     *)
(***************************************************************************)
\* the main loop is at a junction other than the entrance, none of whose
\* passages is marked
AtFreshJunction ==
    /\ pc = "tremaux"
    /\ InGrid(curRow, curCol)
    /\ ~AtExit
    /\ isCellJunction(curCell)
    /\ <<curRow, curCol>> # m_entranceCoords
    /\ enteredCurThrough \in Dirs
    /\ \A d \in Dirs : curCell.m_exits[d] \in {INVALID_EXIT, VALID_EXIT_NO_MARKS}

\* what the step from such a junction does: the direction pushed is a passage
\* other than the entered-through one, both have one mark, the rest none
FreshJunctionStep ==
    LET here == <<curRow, curCol>>
        entered == enteredCurThrough
    IN /\ Len(traversedPath') = Len(traversedPath) + 1
       /\ LET instr == Top(traversedPath')
              chosen == instr[3]
          IN /\ <<instr[1], instr[2]>> = here
             /\ chosen \in Dirs
             /\ chosen # entered
             /\ \A d \in Dirs :
                    m_cellsGrid'[here].m_exits[d] =
                        IF d \in {entered, chosen} THEN VALID_EXIT_ONE_MARK
                        ELSE curCell.m_exits[d]
             /\ <<curRow', curCol'>> = takeStep(curRow, curCol, chosen)

\* C31: on a square maze, at a junction other than the entrance reached with all
\* its passages unmarked, the solver marks the entered-through direction once and
\* the chosen exit direction once, the chosen exit differs from the
\* entered-through direction, and afterwards exactly those two passages have
\* mark count 1 and all others 0.
FirstPassMarksTwo ==
    [][(SquareMaze /\ AtFreshJunction) => FreshJunctionStep]_vars

\* the same, as long as no top() on an empty stack has returned
FirstPassMarksTwoWhileDefined ==
    [][(Defined /\ AtFreshJunction) => FreshJunctionStep]_vars

\* a fresh junction has been passed: the solver stands behind a junction that is
\* not the entrance and has exactly two passages marked once, the others unmarked
FirstPassWitness ==
    /\ pc = "tremaux"
    /\ Defined
    /\ traversedPath # <<>>
    /\ LET instr == Top(traversedPath)
           cell == m_cellsGrid[<<instr[1], instr[2]>>]
       IN /\ <<instr[1], instr[2]>> # m_entranceCoords
          /\ isCellJunction(cell)
          /\ Cardinality({d \in Dirs : cell.m_exits[d] = VALID_EXIT_ONE_MARK}) = 2
          /\ Cardinality({d \in Dirs : cell.m_exits[d] = VALID_EXIT_NO_MARKS}) >= 1
          /\ <<curRow, curCol>> = takeStep(instr[1], instr[2], instr[3])

\* the instruction pushed at the exit
TerminalInstruction == <<curRow, curCol, 100>>

\* the main loop is at the exit
LoopAtExit ==
    /\ pc = "tremaux"
    /\ <<curRow, curCol>> = m_exitCoords

\* C32: whenever the current cell of the main loop is the exit, whatever kind
\* of cell it is, the step pushes the terminal instruction and leaves the loop:
\* no mark is placed, no step is taken, nothing is popped.
ExitTestFirst ==
    [][LoopAtExit =>
            /\ traversedPath' = Append(traversedPath, TerminalInstruction)
            /\ pc' = "labelPath"
            /\ m_cellsGrid' = m_cellsGrid
            /\ <<curRow', curCol'>> = <<curRow, curCol>>]_vars

\* the loop has been left at an exit that is a junction
ExitTestWitness ==
    /\ pc = "labelPath"
    /\ traversedPath # <<>>
    /\ Top(traversedPath) = TerminalInstruction
    /\ <<curRow, curCol>> = m_exitCoords
    /\ isCellJunction(curCell)

\* the loop has been left at an exit that is a dead end
ExitTestDeadEndWitness ==
    /\ pc = "labelPath"
    /\ Top(traversedPath) = TerminalInstruction
    /\ isCellDeadEnd(curCell)
    /\ Len(traversedPath) > 2

\* the loop has been left at an exit that is also the entrance
ExitTestEntranceWitness ==
    /\ pc = "labelPath"
    /\ traversedPath = <<TerminalInstruction>>
    /\ m_exitCoords = m_entranceCoords

\* C33: on a square maze, whenever the main loop calls backTrack the stack is
\* not empty and the loop of backTrack reaches an instruction whose cell is a
\* junction, or the entrance with at least two passages, before the stack is
\* empty: top() is never taken on an empty stack.
TopNeverOnEmptyStack ==
    (SquareMaze /\ CallsBackTrack) =>
        /\ traversedPath # <<>>
        /\ backTrack(traversedPath, m_cellsGrid,
                     m_entranceCoords[1], m_entranceCoords[2]).kind = "junction"

\* the same for the calls made away from the entrance
TopNeverOnEmptyStackOffEntrance ==
    (Defined /\ CallsBackTrack /\ <<curRow, curCol>> # m_entranceCoords) =>
        /\ traversedPath # <<>>
        /\ backTrack(traversedPath, m_cellsGrid,
                     m_entranceCoords[1], m_entranceCoords[2]).kind = "junction"

\* runTremaux is running: from its call to its return
Solving == pc \in {"generated", "tremaux", "ub", "labelPath"}

\* C34: no step of runTremaux, backTrack included, opens or closes a wall or
\* changes the entrance or exit coordinates: the walls, the entrance and the
\* exit at the return of runTremaux are those produced by generation.
SolverKeepsLayout ==
    [][Solving =>
            /\ m_neighborsToWallMap' = m_neighborsToWallMap
            /\ m_entranceCoords' = m_entranceCoords
            /\ m_exitCoords' = m_exitCoords]_vars

\* runTremaux has returned after at least one backtrack and has labeled a path of
\* at least three cells; the open walls still form the generated spanning tree
SolverKeepsLayoutWitness ==
    /\ pc = "done"
    /\ Defined
    /\ \E p \in Cells : \E d \in Dirs : m_cellsGrid[p].m_exits[d] = VALID_EXIT_TWO_MARKS
    /\ Cardinality(LabeledCells) >= 3
    /\ Cardinality(OpenWalls) = ROWCELLS * COLCELLS - 1
    /\ m_entranceCoords # m_exitCoords

\* the cells of the instructions on the stack
StackCells == {<<traversedPath[i][1], traversedPath[i][2]>> : i \in 1 .. Len(traversedPath)}

\* C35: no cell is labeled onPath during generation or during the traversal;
\* labels are set only by the final loop of runTremaux, which runs once the
\* terminal instruction of the exit is on the stack and labels exactly the cells
\* of the instructions left on the stack; a label once set is never cleared.
LabelsOnlyAtTheEnd ==
    /\ [](pc \notin {"done", "written"} => LabeledCells = {})
    /\ [][LabeledCells \subseteq LabeledCells']_vars
    /\ [][LabeledCells' # LabeledCells =>
            /\ pc = "labelPath"
            /\ traversedPath # <<>>
            /\ Top(traversedPath) = <<m_exitCoords[1], m_exitCoords[2], 100>>
            /\ LabeledCells' = StackCells]_vars

\* the final loop has labeled a path of at least three cells after a traversal
\* with a backtrack, and the labels are still there when the file is written
LabelsOnlyAtTheEndWitness ==
    /\ pc = "written"
    /\ Cardinality(LabeledCells) >= 3
    /\ Cardinality(LabeledCells) < ROWCELLS * COLCELLS
    /\ m_exitCoords \in LabeledCells
    /\ \E p \in Cells : \E d \in Dirs : m_cellsGrid[p].m_exits[d] = VALID_EXIT_TWO_MARKS

\* the number of open walls around the grid position p
OpenPassages(p) == Cardinality({q \in Cells : GridAdjacent(p, q) /\ WallBetween(p, q) \in OpenWalls})

\* the Cell stored at position p carries a mark
HasMark(p) == \E d \in Dirs : m_cellsGrid[p].m_exits[d] > VALID_EXIT_NO_MARKS

\* C36: on a square maze, throughout solving, every grid position other than
\* the entrance with at most two open passages has mark count 0 on all its
\* passages.
MarksOnlyAtJunctions ==
    (SquareMaze /\ Solving /\ Defined) =>
        \A p \in Cells \ {m_entranceCoords} : OpenPassages(p) <= 2 => ~HasMark(p)

\* every Cell that carries a mark is the record of a junction or of the entrance
MarksOnlyInJunctionRecords ==
    (Solving /\ Defined) =>
        \A p \in Cells :
            HasMark(p) =>
                LET cell == m_cellsGrid[p]
                IN \/ PassageCount(cell) > 2
                   \/ /\ <<cell.m_rowLoc, cell.m_colLoc>> = m_entranceCoords
                      /\ PassageCount(cell) >= 2

\* once the solver has left an entrance with at least two passages, the entrance
\* is marked
EntranceMarkedAsJunction ==
    (Solving /\ Defined /\ pc # "generated" /\ <<curRow, curCol>> # m_entranceCoords
        /\ OpenPassages(m_entranceCoords) >= 2) => HasMark(m_entranceCoords)

\* the main loop is at a junction it has arrived at through a direction
AtJunctionEntered ==
    /\ pc = "tremaux"
    /\ InGrid(curRow, curCol)
    /\ ~AtExit
    /\ AtJunction
    /\ enteredCurThrough # INVALID_CARDINAL_DIRECTION

\* this iteration takes the last branch of the junction rule: the
\* entered-through direction is not marked twice and another direction is marked
TakesEntryMarkedOnceBranch ==
    /\ AtJunctionEntered
    /\ ~isOnlyThisDirMarked(curCell, enteredCurThrough)
    /\ ~isThisDirMarkedTwice(curCell, enteredCurThrough)

\* the junction is entered with no passage marked, or with the entered-through
\* direction marked twice
EnteredFreshOrByBackTrack ==
    \/ \A d \in Dirs : curCell.m_exits[d] \in {INVALID_EXIT, VALID_EXIT_NO_MARKS}
    \/ /\ enteredCurThrough \in Dirs
       /\ curCell.m_exits[enteredCurThrough] >= VALID_EXIT_TWO_MARKS

\* C37: on a square maze the solver never takes the junction branch for an
\* entered-through direction marked once with other directions marked: a
\* junction is entered either with all its passages unmarked or with the
\* entered-through direction marked twice by a backtrack.
EntryMarkedOnceBranchNeverTaken ==
    SquareMaze =>
        /\ ~TakesEntryMarkedOnceBranch
        /\ AtJunctionEntered => EnteredFreshOrByBackTrack

\* the same, as long as no top() on an empty stack has returned
EntryMarkedOnceBranchNeverTakenWhileDefined ==
    Defined =>
        /\ ~TakesEntryMarkedOnceBranch
        /\ AtJunctionEntered => EnteredFreshOrByBackTrack

\* markCellExit(dir) on cell takes its error branch
MarkFails(cell, dir) == dir \notin Dirs \/ markCellExitError(cell, dir)

\* a markCellExit call of this iteration of the main loop, backTrack aside,
\* takes its error branch
MainLoopMarkFails ==
    /\ pc = "tremaux"
    /\ InGrid(curRow, curCol)
    /\ ~AtExit
    /\ AtJunction
    /\ IF enteredCurThrough = INVALID_CARDINAL_DIRECTION
       THEN MarkFails(curCell, getDirFewestMarks(curCell))
       ELSE IF isOnlyThisDirMarked(curCell, enteredCurThrough)
       THEN \/ MarkFails(curCell, enteredCurThrough)
            \/ LET marked == markCellExit(curCell, enteredCurThrough)
               IN MarkFails(marked, getDirFewestMarks(marked))
       ELSE IF isThisDirMarkedTwice(curCell, enteredCurThrough)
       THEN MarkFails(curCell, getDirFewestMarks(curCell))
       ELSE FALSE

\* this iteration calls findDirOnlyOtherExit
CallsFindDirOnlyOtherExit ==
    /\ pc = "tremaux"
    /\ InGrid(curRow, curCol)
    /\ ~AtExit
    /\ ~AtJunction
    /\ ~isItThisCell(curCell, m_entranceCoords[1], m_entranceCoords[2])
    /\ ~isCellDeadEnd(curCell)

\* the call is made on a cell with exactly two passages, one of them the
\* entered-through direction
OtherExitCallInContract ==
    /\ PassageCount(curCell) = 2
    /\ enteredCurThrough \in Dirs
    /\ curCell.m_exits[enteredCurThrough] # INVALID_EXIT
    /\ ~findDirOnlyOtherExitError(curCell, enteredCurThrough)
    /\ findDirOnlyOtherExit(curCell, enteredCurThrough) \in Dirs

\* the step taken when an instruction is pushed goes through an open wall to a
\* cell inside the grid
StepThroughOpenWall ==
    LET dir == Top(traversedPath')[3]
        from == <<curRow, curCol>>
        to == <<curRow', curCol'>>
    IN /\ dir \in Dirs
       /\ to = takeStep(curRow, curCol, dir)
       /\ InGrid(to[1], to[2])
       /\ GridAdjacent(from, to)
       /\ WallBetween(from, to) \in OpenWalls

\* the markCellExit call that ends a backTrack has marked a passage
BackTrackMarkInContract ==
    /\ InGrid(curRow', curCol')
    /\ enteredCurThrough' \in Dirs
    /\ m_cellsGrid'[<<curRow', curCol'>>].m_exits[enteredCurThrough'] # INVALID_EXIT

\* an iteration of the main loop that goes on to the next one
LoopIteration == pc \in {"tremaux", "ub"} /\ pc' = "tremaux"

\* C38: on a square maze no iteration of the solver takes an error branch: every
\* markCellExit call targets a direction with a passage, findDirOnlyOtherExit is
\* called on a cell with exactly two passages one of which is the
\* entered-through direction, and every step goes through an open wall to a
\* cell inside the grid.
NoContractError ==
    /\ [](SquareMaze =>
            /\ pc # "tremaux" \/ InGrid(curRow, curCol)
            /\ ~MainLoopMarkFails
            /\ CallsFindDirOnlyOtherExit => OtherExitCallInContract)
    /\ [][(SquareMaze /\ LoopIteration) =>
            IF Len(traversedPath') > Len(traversedPath)
            THEN StepThroughOpenWall
            ELSE BackTrackMarkInContract]_vars

\* the same, as long as no top() on an empty stack has returned
NoContractErrorWhileDefined ==
    /\ [](Defined =>
            /\ pc # "tremaux" \/ InGrid(curRow, curCol)
            /\ ~MainLoopMarkFails
            /\ CallsFindDirOnlyOtherExit => OtherExitCallInContract)
    /\ [][(pc = "tremaux" /\ pc' = "tremaux" /\ Defined) =>
            IF Len(traversedPath') > Len(traversedPath)
            THEN StepThroughOpenWall
            ELSE BackTrackMarkInContract]_vars

(***************************************************************************)
(* Generation: where the entrance and the exit lie                         *)
(***************************************************************************)
\* createEntranceAndExit has returned
EntranceAndExitChosen ==
    pc \in {"generated", "tremaux", "ub", "crashed", "labelPath", "done", "written"}

\* C39: with at least two rows and two columns, the entrance and the exit set by
\* createEntranceAndExit differ in both row and column; they are not
\* grid-adjacent, and the open-passage path between them, which is what solving
\* labels, has at least 3 cells (the walls being the same from the return of
\* runWilson on, the path is looked at when runWilson and runTremaux return).
EntranceExitApart ==
    (EntranceAndExitChosen /\ ROWCELLS >= 2 /\ COLCELLS >= 2) =>
        /\ m_entranceCoords[1] # m_exitCoords[1]
        /\ m_entranceCoords[2] # m_exitCoords[2]
        /\ ~GridAdjacent(m_entranceCoords, m_exitCoords)
        /\ pc \in {"generated", "done"} =>
                Cardinality(PathCells(m_entranceCoords, m_exitCoords)) >= 3

\* an entrance that is not a corner, on a grid with three columns, and an exit
\* two passages away: the path between them has exactly 3 cells
EntranceExitApartWitness ==
    /\ pc = "generated"
    /\ ROWCELLS >= 2
    /\ COLCELLS >= 3
    /\ ~IsCorner(m_entranceCoords)
    /\ Cardinality(PathCells(m_entranceCoords, m_exitCoords)) = 3

\* the same after a solve: the labeled cells are that path
EntranceExitApartSolvedWitness ==
    /\ pc = "done"
    /\ ROWCELLS >= 2
    /\ COLCELLS >= 2
    /\ LabeledCells = PathCells(m_entranceCoords, m_exitCoords)
    /\ Cardinality(LabeledCells) = 3
====
